---- MODULE Spec2Model ----
(***************************************************************************)
(* Note persistence and directory export of the MyDiary web application.   *)
(*                                                                         *)
(* State: the browser key-value store (localStorage) with the per-user     *)
(* notes, settings and directory-initialized keys, the credential table    *)
(* and the session keys; the directory the user granted (its subfolders    *)
(* and files); the module-level FileStorageManager singleton; the React    *)
(* state of the mounted SettingsView; the clock.                           *)
(*                                                                         *)
(* A JavaScript object is a record that has exactly the properties whose   *)
(* value is not undefined.  A string that the code edits character by      *)
(* character (a title, a tag) is a sequence of one-character strings.      *)
(* A value held by the key-value store is the JSON text that was written,  *)
(* represented by the structure that JSON.parse rebuilds from it.          *)
(***************************************************************************)
EXTENDS Integers, Sequences, FiniteSets, TLC

(* ------------------------------ bounds -------------------------------- *)
MaxNotes == 2    \* records held by one notes collection
MaxClock == 1    \* Date.now() ranges over 0..MaxClock
MaxFiles == 2    \* files in the granted directory
MaxTimers == 2   \* pending confirmation time-outs of one SettingsView

DayLen == 2      \* clock values per UTC day: 0 and 1 fall on the same day
MaxScript == 3   \* operations of one run of the two that are compared
MaxInputs == 3   \* input events the editors receive
MaxEditors == 2  \* TextNoteEditor components mounted one after the other
MaxStarts == 2   \* invocations of a recorder's startRecording
MaxDuration == 2 \* seconds a recorder's duration counter counts
MaxPending == 2  \* handleSignup calls waiting for hashPassword at a time

Users == {"alice", "bob"}
Types == {"text", "audio", "video"}

Undefined == "undefined"
Blobs == {"blob1", "thumb1"}
EmptyObject == "{}"
BlobFields == {"audioData", "videoData", "thumbnail"}

NoProps == [p \in {} |-> Undefined]

\* a property of an object literal: present unless its value is undefined
Prop(name, value) == IF value = Undefined THEN NoProps ELSE name :> value

\* reading a property that may be absent
Get(obj, name) == IF name \in DOMAIN obj THEN obj[name] ELSE Undefined

\* JavaScript truthiness of a string-or-undefined value
Truthy(v) == v \notin {Undefined, ""}

(* ------------------------------ strings ------------------------------- *)
\* the characters of the class \s that the model's strings use: the space
\* and the tab
Whitespace == {" ", "\t"}
\* the characters of [a-zA-Z0-9] that the model's strings use
Alphanumeric == {"H", "e", "l", "o", "W", "r", "d", "i", "1"}

RECURSIVE TrimStart(_)
TrimStart(s) ==
  IF s # <<>> /\ Head(s) \in Whitespace THEN TrimStart(Tail(s)) ELSE s

RECURSIVE TrimEnd(_)
TrimEnd(s) ==
  IF s # <<>> /\ s[Len(s)] \in Whitespace
    THEN TrimEnd(SubSeq(s, 1, Len(s) - 1))
    ELSE s

\* String.prototype.trim
Trim(s) == TrimEnd(TrimStart(s))

\* tags.split(",").map((tag) => tag.trim()).filter(Boolean), on the pieces
\* that split(",") returns
ParseTags(pieces) ==
  SelectSeq([i \in DOMAIN pieces |-> Trim(pieces[i])], LAMBDA t : t # <<>>)

(* -------------------------------- JSON -------------------------------- *)
\* JSON.stringify of one object: a Blob has no enumerable property and is
\* written as {}; a property whose value is undefined is not written (the
\* record does not have it)
StringifyObject(obj) ==
  [p \in DOMAIN obj |->
     IF p \in BlobFields /\ obj[p] \in Blobs THEN EmptyObject ELSE obj[p]]

\* JSON.stringify of a value that is an array of objects, or of a truthy
\* value that is not an array
JSONStringify(v) ==
  IF v.kind = "array"
    THEN [kind |-> "array",
          items |-> [i \in DOMAIN v.items |-> StringifyObject(v.items[i])]]
    ELSE v

\* localStorage.getItem of an absent key
Null == [kind |-> "null", items |-> <<>>]
\* the text "[]"
EmptyArrayText == [kind |-> "array", items |-> <<>>]
\* the text of a JSON value that is truthy and not an array
OtherText == [kind |-> "other", items |-> <<>>]

\* a text that is not JSON: JSON.parse throws a SyntaxError on it
UnparsableText == [kind |-> "unparsable", items |-> <<>>]

\* JSON.parse(text) returns
CanParse(text) == text.kind # "unparsable"

\* text || "[]"
OrEmptyArray(text) == IF text.kind = "null" THEN EmptyArrayText ELSE text

\* JSON.parse: the value the text denotes
JSONParse(text) == text

\* existing.push(x): defined on arrays only, a TypeError otherwise
CanPush(v) == v.kind = "array"

\* variant: unshift instead of push
PushFront(v, x) == [kind |-> "array", items |-> <<x>> \o v.items]

Push(v, x) == [kind |-> "array", items |-> Append(v.items, x)]

(* ----------------------------- file names ----------------------------- *)
SubdirNames == <<"Text", "Audio", "Video">>

\* note.type.charAt(0).toUpperCase() + note.type.slice(1)
SubdirOf(type) ==
  CASE type = "text" -> "Text"
    [] type = "audio" -> "Audio"
    [] type = "video" -> "Video"

extensions == [text |-> ".txt", audio |-> ".mp3", video |-> ".mp4"]

\* title.replace(/[^a-zA-Z0-9\s]/g, "")
RemoveSpecial(s) == SelectSeq(s, LAMBDA c : c \in Alphanumeric \cup Whitespace)

\* s.replace(/\s+/g, "_")
RECURSIVE CollapseWhitespace(_)
CollapseWhitespace(s) ==
  IF s = <<>> THEN <<>>
  ELSE IF Head(s) \in Whitespace
    THEN <<"_">> \o CollapseWhitespace(TrimStart(s))
    ELSE <<Head(s)>> \o CollapseWhitespace(Tail(s))

\* the UTC day of a clock value, counted from 1970-01-01
DayOf(date) == date \div DayLen

\* the proleptic Gregorian date of a day counted from 1970-01-01, as
\* Date.prototype.toISOString computes it
CivilFromDays(day) ==
  LET z == day + 719468
      era == z \div 146097
      doe == z - era * 146097
      yoe == (doe - doe \div 1460 + doe \div 36524 - doe \div 146096) \div 365
      doy == doe - (365 * yoe + yoe \div 4 - yoe \div 100)
      mp == (5 * doy + 2) \div 153
      d == doy - (153 * mp + 2) \div 5 + 1
      m == IF mp < 10 THEN mp + 3 ELSE mp - 9
      y == yoe + era * 400 + (IF m <= 2 THEN 1 ELSE 0)
  IN [year |-> y, month |-> m, day |-> d]

\* a natural number written with at least width digits
RECURSIVE PadStart(_, _)
PadStart(n, width) ==
  IF width <= 1 THEN ToString(n)
  ELSE IF n < 10 THEN "0" \o PadStart(n, width - 1)
  ELSE PadStart(n \div 10, width - 1) \o ToString(n % 10)

\* the year of toISOString: four digits for the years 0 to 9999, a sign and
\* six digits for the others
ISOYear(y) ==
  IF y >= 0 /\ y <= 9999 THEN PadStart(y, 4)
  ELSE IF y < 0 THEN "-" \o PadStart(0 - y, 6)
  ELSE "+" \o PadStart(y, 6)

\* date.toISOString().split("T")[0]
ISODay(date) ==
  LET c == CivilFromDays(DayOf(date))
  IN ISOYear(c.year) \o "-" \o PadStart(c.month, 2) \o "-" \o PadStart(c.day, 2)

\* variant: the whitespace of the title is kept as it is
generateFilenameKeepsWhitespace(title, type, date) ==
  <<ISODay(date), "_">> \o RemoveSpecial(title) \o <<extensions[type]>>

\* the file name: the day, "_", the characters of the sanitized title, the
\* extension
generateFilename(title, type, date) ==
  <<ISODay(date), "_">>
    \o CollapseWhitespace(RemoveSpecial(title))
    \o <<extensions[type]>>

(* ------------------------------- state -------------------------------- *)
VARIABLES
  ls_notes,            \* localStorage mydiary_notes_<user>
  ls_settings,         \* localStorage mydiary_settings_<user>
  ls_dirInit,          \* localStorage mydiary_directory_initialized_<user>
  subdirs,             \* subfolders of the directory the user can grant
  files,               \* files of that directory: <<subfolder, name>> -> data
  fileStorageInstance, \* the module-level FileStorageManager singleton
  username,            \* the user the Dashboard is rendered for
  settings,            \* SettingsView state: settings
  showDeleteConfirm,   \* SettingsView state: showDeleteConfirm
  timers,              \* pending setTimeout(..., 5000) of the SettingsView
  now,                 \* Date.now()
  backup,              \* the document the last exportData downloaded
  last,                \* the last handler that ran and what it reported
  tabPc,               \* a second writer's position in its append
  tabExisting,         \* the list that writer read
  tabNote,             \* the record that writer appends
  fn,                  \* one call of generateFilename: arguments and result
  ls_users,            \* localStorage mydiary_users: user -> password hash
  ls_user,             \* localStorage mydiary_user
  ls_remember,         \* localStorage mydiary_remember
  pendingSignups,      \* handleSignup calls waiting for hashPassword
  run,                 \* two runs of one sequence of operations, compared
  editor,              \* the mounted TextNoteEditor and the time-outs set
  audio,               \* the AudioNoteRecorder, its recorders and intervals
  video,               \* the VideoNoteRecorder, its recorders and intervals
  confirmTimers,       \* when the delete confirmation's time-outs are due
  search               \* the SearchFilterView: its notes and filters

storeVars == <<ls_notes, ls_settings, ls_dirInit>>
diskVars == <<subdirs, files>>
viewVars == <<settings, showDeleteConfirm, timers>>
tabVars == <<tabPc, tabExisting, tabNote>>
loginVars == <<ls_users, ls_user, ls_remember, pendingSignups>>
widgetVars == <<editor, audio, video, confirmTimers, search>>
vars == <<ls_notes, ls_settings, ls_dirInit, subdirs, files,
          fileStorageInstance, username, settings, showDeleteConfirm, timers,
          now, backup, last, tabPc, tabExisting, tabNote, fn, ls_users,
          ls_user, ls_remember, pendingSignups, run, editor, audio,
          video, confirmTimers, search>>

\* everything but the state of the editor, the recorders and the search view
appVars == <<storeVars, diskVars, fileStorageInstance, username, viewVars,
             now, backup, last, tabVars, fn, loginVars, run>>

Tabs == {1, 2}

(* ------------------------------ settings ------------------------------ *)
defaultSettings ==
  [diaryPath |-> "", theme |-> "system", fontFamily |-> "Inter",
   accentColor |-> "#3b82f6"]

\* the settings object LoginForm.handleSignup stores for a new user
signupSettings == [diaryPath |-> "", theme |-> "light", fontFamily |-> "Inter"]

NoSettingsItem == [kind |-> "null", value |-> NoProps]
SettingsText(obj) == [kind |-> "object", value |-> obj]

\* { ...defaultSettings, ...JSON.parse(savedSettings) }
MergeDefaults(parsed) == parsed @@ defaultSettings

\* SettingsView.loadSettings: the settings state after the mount effect
loadSettings(item) ==
  IF item.kind = "null" THEN defaultSettings ELSE MergeDefaults(item.value)

(* --------------------------- the singleton ---------------------------- *)
NoInstance == [exists |-> FALSE, username |-> "", directoryHandle |-> FALSE]

getFileStorageManager(inst, user) ==
  IF ~inst.exists \/ inst.username # user
    THEN [exists |-> TRUE, username |-> user, directoryHandle |-> FALSE]
    ELSE inst

(* -------------------------- what a handler reports -------------------- *)
Report(op, ret, alert, logs) ==
  [op |-> op, ret |-> ret, alert |-> alert, logs |-> logs]

NoBackup ==
  [exists |-> FALSE, username |-> "", settings |-> NoProps, notes |-> Null,
   exportDate |-> 0, version |-> ""]

\* generateFilename has not been called
NoFilenameCall ==
  [title |-> <<>>, type |-> "text", date |-> 0, called |-> FALSE,
   result |-> <<>>]

(* ------------------------------ accounts ------------------------------ *)
\* nobody is logged in: mydiary_user is absent
NoUser == ""

\* LoginForm.hashPassword: the hexadecimal SHA-256 digest of the password
hashPassword(password) == "sha256:" \o password

\* the passwords the forms are filled with: one of six characters or more,
\* one that is shorter
GoodPassword == "secret"
ShortPassword == "short"

\* the length of a password
PasswordLength(password) == IF password = ShortPassword THEN 5 ELSE 6

\* no two runs are being compared
NoRun ==
  [phase |-> 0, actor |-> NoUser, other |-> NoUser, filled |-> FALSE,
   script |-> <<>>, views |-> <<>>, pos |-> 0]

(* --------------------------- TextNoteEditor --------------------------- *)
\* no TextNoteEditor is mounted and none has been: no time-out is pending
NoEditor ==
  [instance |-> 0, instances |-> 0, isAutoSaving |-> FALSE,
   autoSaveTimeoutRef |-> 0, timers |-> {}, timerIds |-> 0, sinceInput |-> 0,
   inputs |-> 0]

(* -------------------------- AudioNoteRecorder ------------------------- *)
\* the AudioNoteRecorder as it is mounted: nothing recorded, no recorder
\* created, no interval set
NoAudioRecording ==
  [recordingState |-> "idle", audioBlob |-> "null", duration |-> 0,
   awaiting |-> 0, starts |-> 0,
   recorders |-> <<>>, mediaRecorderRef |-> 0, stopEvents |-> {},
   intervals |-> {}, intervalRef |-> 0]

(* -------------------------- VideoNoteRecorder ------------------------- *)
\* the VideoNoteRecorder as it is mounted: initializeCamera is waiting for
\* getUserMedia, nothing is recorded
NoVideoRecording ==
  [recordingState |-> "idle", videoBlob |-> "null", thumbnailBlob |-> "null",
   duration |-> 0, title |-> <<>>, camera |-> "initializing", starts |-> 0,
   recorders |-> <<>>, mediaRecorderRef |-> 0, stopEvents |-> {},
   toBlobCalls |-> 0, intervals |-> {}, intervalRef |-> 0]

(* ----------------------- delete confirmation ------------------------- *)
\* the delay of the time-out that disarms the delete confirmation, seconds
ConfirmDelay == 5

\* no confirmation time-out is pending and the confirmation was not armed:
\* pending holds the seconds each pending time-out has left, oldest first,
\* armedFor the seconds since the confirmation was armed (-1: not armed, or
\* the armed confirmation was used)
NoConfirmTimers == [pending |-> <<>>, armedFor |-> -1]

(* --------------------------- SearchFilterView ------------------------- *)
\* the SearchFilterView before loadNotes has run: no notes, no filter
NoSearch ==
  [notes |-> <<>>, selectedTypes |-> {}, selectedTags |-> {},
   selectedMood |-> "", sortOrder |-> "desc"]

\* no editor was mounted, the recorders are as they mount, the delete
\* confirmation was not armed, the search view holds no notes
InitWidgets ==
  /\ editor = NoEditor
  /\ audio = NoAudioRecording
  /\ video = NoVideoRecording
  /\ confirmTimers = NoConfirmTimers
  /\ search = NoSearch

(* -------------------------------- Init -------------------------------- *)
\* alice has signed up and has opened the settings view: her settings key
\* holds the signup settings, the mount effect has loaded them and has
\* created the singleton; nothing else is stored, no directory was granted
InitProgram ==
  /\ ls_notes = [u \in Users |-> Null]
  /\ ls_settings = [u \in Users |->
       IF u = "alice" THEN SettingsText(signupSettings) ELSE NoSettingsItem]
  /\ ls_dirInit = [u \in Users |-> FALSE]
  /\ subdirs = {}
  /\ files = [p \in {} |-> ""]
  /\ fileStorageInstance = getFileStorageManager(NoInstance, "alice")
  /\ username = "alice"
  /\ settings = loadSettings(SettingsText(signupSettings))
  /\ showDeleteConfirm = FALSE
  /\ timers = 0
  /\ now = 0
  /\ backup = NoBackup
  /\ last = Report("init", "void", "", {})
  /\ tabPc = [t \in Tabs |-> "idle"]
  /\ tabExisting = [t \in Tabs |-> EmptyArrayText]
  /\ tabNote = [t \in Tabs |-> NoProps]
  /\ ls_users = ("alice" :> hashPassword(GoodPassword))
  /\ ls_user = "alice"
  /\ ls_remember = "true"
  /\ pendingSignups = {}
  /\ InitWidgets

Init == InitProgram /\ fn = NoFilenameCall /\ run = NoRun

(* ------------------------- CreateNoteDialog --------------------------- *)
\* the object literal newNote of handleSave
newNote(form, noteTitle, noteContent, duration, thumbnail, clock) ==
  LET finalTitle == IF noteTitle # <<>> THEN noteTitle ELSE form.title
      noteType == form.noteType
  IN [id |-> clock,
      title |-> Trim(finalTitle),
      type |-> noteType,
      content |-> IF noteType = "text"
                    THEN (IF Truthy(noteContent) THEN noteContent
                                                 ELSE form.content)
                    ELSE "",
      duration |-> duration,
      tags |-> ParseTags(form.tags),
      mood |-> form.mood,
      date |-> clock,
      createdAt |-> clock]
     @@ Prop("audioData", IF noteType = "audio" THEN noteContent ELSE Undefined)
     @@ Prop("videoData", IF noteType = "video" THEN noteContent ELSE Undefined)
     @@ Prop("thumbnail", thumbnail)

\* room for one more record in the user's collection
NotesRoom(user) ==
  ls_notes[user].kind = "array" => Len(ls_notes[user].items) < MaxNotes

\* CreateNoteDialog.handleSave.  setItemOk: localStorage.setItem accepts the
\* write (it throws when the store is full or disabled).  An exception of
\* JSON.parse, push or setItem leaves the handler: the form is not reset
handleSave(form, noteTitle, noteContent, duration, thumbnail, setItemOk) ==
  LET finalTitle == IF noteTitle # <<>> THEN noteTitle ELSE form.title
      note == newNote(form, noteTitle, noteContent, duration, thumbnail, now)
      existingNotes == JSONParse(OrEmptyArray(ls_notes[username]))
  IN /\ NotesRoom(username)
     /\ IF Trim(finalTitle) = <<>>
          THEN /\ UNCHANGED ls_notes
               /\ last' = Report("handleSave", "returned", "", {})
          ELSE IF \/ ~CanParse(OrEmptyArray(ls_notes[username]))
                  \/ ~CanPush(existingNotes)
                  \/ ~setItemOk
            THEN /\ UNCHANGED ls_notes
                 /\ last' = Report("handleSave", "threw", "", {})
            ELSE /\ ls_notes' = [ls_notes EXCEPT ![username] =
                        JSONStringify(Push(existingNotes, note))]
                 /\ last' = Report("handleSave", "saved", "", {})
     /\ UNCHANGED <<ls_settings, ls_dirInit, diskVars, fileStorageInstance,
                    username, fn, loginVars, run, viewVars, now, backup, tabVars, widgetVars>>

\* what the select view of the dialog holds when a button is pressed
DialogForms ==
  { [title |-> <<"H", "i">>, content |-> "hello",
     tags |-> << <<"W">>, <<" ">> >>, mood |-> "happy", noteType |-> "text"],
    [title |-> <<"H", "i", "!">>, content |-> "",
     tags |-> <<>>, mood |-> "", noteType |-> "audio"],
    [title |-> <<" ">>, content |-> "hello",
     tags |-> <<>>, mood |-> "", noteType |-> "text"] }

\* what the select view holds when a recorder was opened from it
RecorderForm ==
  [title |-> <<>>, content |-> "", tags |-> << <<"W">> >>, mood |-> "",
   noteType |-> "text"]

\* the arguments of one handleSave call, with the form it finds
Call(form, noteTitle, noteContent, duration, thumbnail) ==
  [form |-> form, noteTitle |-> noteTitle, noteContent |-> noteContent,
   duration |-> duration, thumbnail |-> thumbnail]

\* the "Save Note" button: handleSave(), enabled while title.trim() is not
\* empty, whatever note type is selected (duration || 0 is 0)
SaveNoteButtonCalls ==
  { Call(form, <<>>, Undefined, 0, Undefined) :
      form \in {f \in DialogForms : Trim(f.title) # <<>>} }

\* TextNoteEditor.handleSave -> onSave(title, innerHTML), note type text
EditorCalls ==
  { Call(form, noteTitle, html, 0, Undefined) :
      form \in {f \in DialogForms : f.noteType = "text"},
      noteTitle \in {<<>>, <<" ">>, <<"H", "i">>},
      html \in {"", "<p>hello</p>"} }

\* AudioNoteRecorder.handleSave -> onSave(title.trim(), audioBlob, duration),
\* note type audio, only with a recorded blob and a non-blank title
AudioRecorderCalls ==
  { Call([RecorderForm EXCEPT !.noteType = "audio"],
         <<"H", "i">>, "blob1", 5, Undefined) }

\* VideoNoteRecorder.handleSave -> onSave(title.trim(), videoBlob,
\* thumbnailBlob, duration), note type video
VideoRecorderCalls ==
  { Call([RecorderForm EXCEPT !.noteType = "video"],
         <<"H", "i", "!">>, "blob1", 0, "thumb1") }

DialogCalls ==
  SaveNoteButtonCalls \cup EditorCalls \cup AudioRecorderCalls
    \cup VideoRecorderCalls

handleSaveCall(c, setItemOk) ==
  handleSave(c.form, c.noteTitle, c.noteContent, c.duration, c.thumbnail,
             setItemOk)

SaveNoteButton ==
  \E c \in SaveNoteButtonCalls, setItemOk \in BOOLEAN :
    handleSaveCall(c, setItemOk)

EditorSave ==
  \E c \in EditorCalls, setItemOk \in BOOLEAN : handleSaveCall(c, setItemOk)

AudioRecorderSave ==
  \E c \in AudioRecorderCalls, setItemOk \in BOOLEAN :
    handleSaveCall(c, setItemOk)

VideoRecorderSave ==
  \E c \in VideoRecorderCalls, setItemOk \in BOOLEAN :
    handleSaveCall(c, setItemOk)

\* time passes
Tick ==
  /\ now < MaxClock
  /\ now' = now + 1
  /\ UNCHANGED <<storeVars, diskVars, fileStorageInstance, username, fn, loginVars, run, viewVars,
                 backup, last, tabVars, widgetVars>>

(* ---------------------------- SettingsView ---------------------------- *)
\* updateSettings("theme", value): changes the state only
updateSettings ==
  \E theme \in {"dark"} :
    /\ settings.theme # theme
    /\ settings' = [settings EXCEPT !.theme = theme]
    /\ last' = Report("updateSettings", "void", "", {})
    /\ UNCHANGED <<storeVars, diskVars, fileStorageInstance, username, fn, loginVars, run,
                   showDeleteConfirm, timers, now, backup, tabVars, widgetVars>>

\* saveSettings: an exception of setItem leaves the handler
saveSettingsCall(setItemOk) ==
    /\ IF setItemOk
         THEN /\ ls_settings' = [ls_settings EXCEPT ![username] =
                     SettingsText(settings)]
              /\ last' = Report("saveSettings", "void", "", {})
         ELSE /\ UNCHANGED ls_settings
              /\ last' = Report("saveSettings", "threw", "", {})
    /\ UNCHANGED <<ls_notes, ls_dirInit, diskVars, fileStorageInstance,
                   username, fn, loginVars, run, viewVars, now, backup, tabVars, widgetVars>>

saveSettings == \E setItemOk \in BOOLEAN : saveSettingsCall(setItemOk)

\* the user leaves the settings view and opens it again: a new SettingsView
\* is mounted, its effect runs loadSettings and checkDirectoryStatus; the
\* time-outs of the old one no longer reach any state
Remount ==
  /\ settings' = loadSettings(ls_settings[username])
  /\ showDeleteConfirm' = FALSE
  /\ timers' = 0
  /\ fileStorageInstance' = getFileStorageManager(fileStorageInstance, username)
  /\ last' = Report("mount", "void", "", {})
  /\ UNCHANGED <<storeVars, diskVars, username, fn, loginVars, run, now, backup, tabVars, widgetVars>>

\* variant: the document is built without the stored notes
exportDataWithoutNotes ==
  /\ backup' = [exists |-> TRUE, username |-> username,
                settings |-> settings, notes |-> EmptyArrayText,
                exportDate |-> now, version |-> "1.0"]
  /\ last' = Report("exportData", "void", "", {})
  /\ UNCHANGED <<storeVars, diskVars, fileStorageInstance, username, fn, loginVars, run,
                 viewVars, now, tabVars, widgetVars>>

\* exportData: the downloaded document, as JSON.stringify writes it
exportData ==
  LET notes == JSONParse(OrEmptyArray(ls_notes[username]))
  IN /\ backup' = [exists |-> TRUE, username |-> username,
                   settings |-> settings, notes |-> JSONStringify(notes),
                   exportDate |-> now, version |-> "1.0"]
     /\ last' = Report("exportData", "void", "", {})
     /\ UNCHANGED <<storeVars, diskVars, fileStorageInstance, username, fn, loginVars, run,
                    viewVars, now, tabVars, widgetVars>>

\* a record some other export wrote
ForeignRecord ==
  [id |-> 0, title |-> <<"W", "o">>, type |-> "text", content |-> "old",
   duration |-> 0, tags |-> <<>>, mood |-> "", date |-> 0, createdAt |-> 0]

\* the file exportData downloaded
BackupFile ==
  [parsable |-> TRUE,
   doc |-> [username |-> backup.username, settings |-> backup.settings,
            notes |-> backup.notes, exportDate |-> backup.exportDate,
            version |-> backup.version]]

\* the files the user can choose for import: the parsed document, or
\* parsable = FALSE when JSON.parse throws on the file's text
ImportFiles ==
  { [parsable |-> FALSE, doc |-> NoProps],
    [parsable |-> TRUE, doc |-> NoProps],
    [parsable |-> TRUE, doc |-> [notes |-> EmptyArrayText]],
    [parsable |-> TRUE, doc |-> [notes |-> OtherText]],
    [parsable |-> TRUE,
     doc |-> [notes |-> [kind |-> "array",
                         items |-> <<ForeignRecord>>],
              settings |-> [theme |-> "dark"]]] }
  \cup (IF backup.exists THEN {BackupFile} ELSE {})

\* importData with the reader's onload: the whole try block.  notesOk and
\* settingsOk: the two setItem calls accept the write
importDataOf(file, notesOk, settingsOk) ==
  LET importedData == file.doc
      hasNotes == "notes" \in DOMAIN importedData
      hasSettings == "settings" \in DOMAIN importedData
      notesThrows == hasNotes /\ ~notesOk
      settingsThrows == hasSettings /\ ~settingsOk
      threw == ~file.parsable \/ notesThrows \/ settingsThrows
  IN /\ ls_notes' =
          IF file.parsable /\ hasNotes /\ notesOk
            THEN [ls_notes EXCEPT ![username] =
                    JSONStringify(importedData.notes)]
            ELSE ls_notes
     /\ settings' =
          IF file.parsable /\ ~notesThrows /\ hasSettings
            THEN importedData.settings
            ELSE settings
     /\ ls_settings' =
          IF file.parsable /\ ~notesThrows /\ hasSettings /\ settingsOk
            THEN [ls_settings EXCEPT ![username] =
                    SettingsText(importedData.settings)]
            ELSE ls_settings
     /\ last' = Report("importData", "void",
                       IF threw
                         THEN "Error importing data. Please check the file format."
                         ELSE "Data imported successfully!",
                       {})
     /\ UNCHANGED <<ls_dirInit, diskVars, fileStorageInstance, username, fn, loginVars, run,
                    showDeleteConfirm, timers, now, backup, tabVars, widgetVars>>

importData ==
  \E file \in ImportFiles, notesOk \in BOOLEAN, settingsOk \in BOOLEAN :
    importDataOf(file, notesOk, settingsOk)

\* deleteAllData, the handler of the Danger Zone button
deleteAllDataCall ==
  /\ IF showDeleteConfirm
       THEN /\ ls_notes' = [ls_notes EXCEPT ![username] = Null]
            /\ ls_settings' = [ls_settings EXCEPT ![username] = NoSettingsItem]
            /\ settings' = defaultSettings
            /\ showDeleteConfirm' = FALSE
            /\ timers' = timers
            /\ last' = Report("deleteAllData", "void",
                              "All data has been deleted.", {})
       ELSE /\ timers < MaxTimers
            /\ showDeleteConfirm' = TRUE
            /\ timers' = timers + 1
            /\ last' = Report("deleteAllData", "void", "", {})
            /\ UNCHANGED <<ls_notes, ls_settings, settings>>
  /\ UNCHANGED <<ls_dirInit, diskVars, fileStorageInstance, username, fn,
                 loginVars, run, now, backup, tabVars>>

\* variant: the first click deletes
deleteAllDataAtOnce ==
  /\ ls_notes' = [ls_notes EXCEPT ![username] = Null]
  /\ ls_settings' = [ls_settings EXCEPT ![username] = NoSettingsItem]
  /\ settings' = defaultSettings
  /\ showDeleteConfirm' = FALSE
  /\ last' = Report("deleteAllData", "void", "All data has been deleted.", {})
  /\ UNCHANGED <<ls_dirInit, diskVars, fileStorageInstance, username, fn, loginVars, run, timers,
                 now, backup, tabVars, widgetVars>>

\* variant: the confirmed click removes the settings key only
deleteAllDataKeepsNotes ==
  /\ IF showDeleteConfirm
       THEN /\ ls_settings' = [ls_settings EXCEPT ![username] = NoSettingsItem]
            /\ settings' = defaultSettings
            /\ showDeleteConfirm' = FALSE
            /\ timers' = timers
            /\ last' = Report("deleteAllData", "void",
                              "All data has been deleted.", {})
            /\ UNCHANGED ls_notes
       ELSE /\ timers < MaxTimers
            /\ showDeleteConfirm' = TRUE
            /\ timers' = timers + 1
            /\ last' = Report("deleteAllData", "void", "", {})
            /\ UNCHANGED <<ls_notes, ls_settings, settings>>
  /\ UNCHANGED <<ls_dirInit, diskVars, fileStorageInstance, username, fn, loginVars, run, now,
                 backup, tabVars, widgetVars>>

\* deleteAllData: the second click deletes, the first one arms
deleteAllData == deleteAllDataCall /\ UNCHANGED widgetVars

\* a time-out set by deleteAllData runs: setShowDeleteConfirm(false)
ConfirmTimeoutCall ==
  /\ timers > 0
  /\ timers' = timers - 1
  /\ showDeleteConfirm' = FALSE
  /\ UNCHANGED <<storeVars, diskVars, fileStorageInstance, username, fn,
                 loginVars, run, settings, now, backup, last, tabVars>>

ConfirmTimeout == ConfirmTimeoutCall /\ UNCHANGED widgetVars

\* deleteAllData with the time its time-out is due: the arming click sets a
\* time-out of ConfirmDelay seconds, the deleting click clears none
deleteAllDataTimed ==
  /\ deleteAllDataCall
  /\ confirmTimers' =
       IF showDeleteConfirm
         THEN [confirmTimers EXCEPT !.armedFor = -1]
         ELSE [pending |-> Append(confirmTimers.pending, ConfirmDelay),
               armedFor |-> 0]
  /\ UNCHANGED <<editor, audio, video, search>>

\* one second passes; a time-out that is due may still be waiting for the
\* event loop
ConfirmSecond ==
  /\ confirmTimers.pending # <<>>
  /\ confirmTimers' =
       [pending |-> [i \in DOMAIN confirmTimers.pending |->
                       IF confirmTimers.pending[i] > 0
                         THEN confirmTimers.pending[i] - 1 ELSE 0],
        armedFor |-> IF confirmTimers.armedFor \in 0..(ConfirmDelay - 1)
                       THEN confirmTimers.armedFor + 1
                       ELSE confirmTimers.armedFor]
  /\ confirmTimers' # confirmTimers
  /\ UNCHANGED <<appVars, editor, audio, video, search>>

\* the oldest pending time-out is due and runs
ConfirmTimeoutTimed ==
  /\ confirmTimers.pending # <<>>
  /\ Head(confirmTimers.pending) = 0
  /\ ConfirmTimeoutCall
  /\ confirmTimers' = [confirmTimers EXCEPT !.pending = Tail(@)]
  /\ UNCHANGED <<editor, audio, video, search>>

(* ------------------------- FileStorageManager ------------------------- *)
\* a property copied from an object that may not have it
Copy(obj, name) == IF name \in DOMAIN obj THEN name :> obj[name] ELSE NoProps

\* variant: the shadow record also carries the content
metadataWithContent(note, filename) ==
  [id |-> note.id, title |-> note.title, type |-> note.type,
   filename |-> filename, date |-> note.date, tags |-> note.tags,
   savedToFile |-> TRUE]
  @@ Copy(note, "mood") @@ Copy(note, "duration") @@ Copy(note, "content")

\* the object literal metadata of saveMetadataToLocalStorage
metadataOf(note, filename) ==
  [id |-> note.id, title |-> note.title, type |-> note.type,
   filename |-> filename, date |-> note.date, tags |-> note.tags,
   savedToFile |-> TRUE]
  @@ Copy(note, "mood") @@ Copy(note, "duration")

\* the object literal noteData of saveToLocalStorage
noteDataOf(note) ==
  [id |-> note.id, title |-> note.title, type |-> note.type,
   date |-> note.date, tags |-> note.tags, savedToFile |-> FALSE]
  @@ Copy(note, "content")
  @@ Prop("audioData", IF note.type = "audio" THEN Get(note, "blob") ELSE Undefined)
  @@ Prop("videoData", IF note.type = "video" THEN Get(note, "blob") ELSE Undefined)
  @@ Copy(note, "mood") @@ Copy(note, "duration")

\* one append to the stored text: the new text, or threw when JSON.parse,
\* push or setItem raises
AppendTo(text, record, setItemOk) ==
  LET existing == JSONParse(OrEmptyArray(text))
  IN IF CanParse(OrEmptyArray(text)) /\ CanPush(existing) /\ setItemOk
       THEN [threw |-> FALSE, text |-> JSONStringify(Push(existing, record))]
       ELSE [threw |-> TRUE, text |-> text]

\* the awaited calls of saveNoteToFile, in order; each may reject
ExportSteps ==
  <<"getDirectoryHandle", "getFileHandle", "createWritable", "write", "close">>
FailPoints == {"none"} \cup {ExportSteps[i] : i \in DOMAIN ExportSteps}

StepIndex(step) ==
  IF step = "none" THEN Len(ExportSteps) + 1
  ELSE CHOOSE i \in DOMAIN ExportSteps : ExportSteps[i] = step

\* what the writable receives: note.content || "" for text, note.blob if
\* there is one, nothing otherwise
WrittenData(note) ==
  IF note.type = "text"
    THEN (IF Truthy(Get(note, "content")) THEN note.content ELSE "")
    ELSE (IF "blob" \in DOMAIN note THEN note.blob ELSE "")

PathOf(note) ==
  <<SubdirOf(note.type), generateFilename(note.title, note.type, note.date)>>

\* the step at which the export of note rejects, "none" if it completes:
\* getDirectoryHandle(subdirName) has no create option and rejects when the
\* subfolder is missing
RejectsAt(note, failAt) ==
  IF SubdirOf(note.type) \notin subdirs THEN "getDirectoryHandle" ELSE failAt

\* variant: a file that is already there is not written again
FilesAfterKeepsExisting(note, rejectsAt) ==
  IF rejectsAt = "none" THEN files @@ (PathOf(note) :> WrittenData(note))
  ELSE IF StepIndex(rejectsAt) > StepIndex("getFileHandle")
          /\ PathOf(note) \notin DOMAIN files
    THEN (PathOf(note) :> "") @@ files
    ELSE files

\* the directory after the export: getFileHandle(filename, {create: true})
\* creates an empty file when there is none; close() replaces the file's
\* content by what was written; a writable that is not closed changes nothing
FilesAfter(note, rejectsAt) ==
  IF rejectsAt = "none" THEN (PathOf(note) :> WrittenData(note)) @@ files
  ELSE IF StepIndex(rejectsAt) > StepIndex("getFileHandle")
          /\ PathOf(note) \notin DOMAIN files
    THEN (PathOf(note) :> "") @@ files
    ELSE files

\* the notes a caller passes to saveNoteToFile
AdapterNotes ==
  { [id |-> 0, title |-> <<"H", "i">>, type |-> "text", filename |-> <<>>,
     content |-> "hello", date |-> 0, tags |-> << <<"W">> >>,
     mood |-> "happy"],
    [id |-> 0, title |-> <<"H", "i", "!">>, type |-> "text",
     filename |-> <<>>, date |-> 1, tags |-> <<>>],
    [id |-> 1, title |-> <<"H", "i">>, type |-> "audio", filename |-> <<>>,
     blob |-> "blob1", date |-> 2, tags |-> <<>>, duration |-> 5] }

\* variant: true is returned for the export only, not for the fallback
saveNoteToFileReportsExport(note, failAt, metadataOk, fallbackOk) ==
  LET manager == getFileStorageManager(fileStorageInstance, username)
      rejectsAt == RejectsAt(note, failAt)
      closed == manager.directoryHandle /\ rejectsAt = "none"
      metadata == AppendTo(ls_notes[username],
                           metadataOf(note, PathOf(note)[2]), metadataOk)
      fallback == AppendTo(ls_notes[username], noteDataOf(note), fallbackOk)
      succeeded == closed /\ ~metadata.threw
      text == IF succeeded THEN metadata.text ELSE fallback.text
      logs ==
        IF succeeded THEN {"Successfully saved note"}
        ELSE (IF manager.directoryHandle
                THEN {"Error saving note to file"}
                ELSE {"No directory handle available"})
             \cup (IF fallback.threw
                     THEN {"Error saving to localStorage"}
                     ELSE {"Saved note to localStorage as fallback"})
      filesAfter == IF manager.directoryHandle
                      THEN FilesAfter(note, rejectsAt) ELSE files
  IN /\ NotesRoom(username)
     /\ Cardinality(DOMAIN filesAfter) <= MaxFiles
     /\ fileStorageInstance' = manager
     /\ files' = filesAfter
     /\ ls_notes' = [ls_notes EXCEPT ![username] = text]
     /\ last' = Report("saveNoteToFile",
                       IF succeeded THEN "true" ELSE "false",
                       "", logs)
     /\ UNCHANGED <<ls_settings, ls_dirInit, subdirs, username, fn, loginVars, run, viewVars, now,
                    backup, tabVars, widgetVars>>

\* getFileStorageManager(username, diaryPath).saveNoteToFile(note).
\* failAt: the awaited call that rejects; metadataOk, fallbackOk: setItem
\* accepts the write of saveMetadataToLocalStorage, of saveToLocalStorage
saveNoteToFileCall(note, failAt, metadataOk, fallbackOk) ==
  LET manager == getFileStorageManager(fileStorageInstance, username)
      rejectsAt == RejectsAt(note, failAt)
      closed == manager.directoryHandle /\ rejectsAt = "none"
      metadata == AppendTo(ls_notes[username],
                           metadataOf(note, PathOf(note)[2]), metadataOk)
      fallback == AppendTo(ls_notes[username], noteDataOf(note), fallbackOk)
      succeeded == closed /\ ~metadata.threw
      text == IF succeeded THEN metadata.text ELSE fallback.text
      logs ==
        IF succeeded THEN {"Successfully saved note"}
        ELSE (IF manager.directoryHandle
                THEN {"Error saving note to file"}
                ELSE {"No directory handle available"})
             \cup (IF fallback.threw
                     THEN {"Error saving to localStorage"}
                     ELSE {"Saved note to localStorage as fallback"})
      filesAfter == IF manager.directoryHandle
                      THEN FilesAfter(note, rejectsAt) ELSE files
  IN /\ NotesRoom(username)
     /\ Cardinality(DOMAIN filesAfter) <= MaxFiles
     /\ fileStorageInstance' = manager
     /\ files' = filesAfter
     /\ ls_notes' = [ls_notes EXCEPT ![username] = text]
     /\ last' = Report("saveNoteToFile",
                       IF succeeded \/ ~fallback.threw THEN "true" ELSE "false",
                       "", logs)
     /\ UNCHANGED <<ls_settings, ls_dirInit, subdirs, username, fn, loginVars, run, viewVars, now,
                    backup, tabVars, widgetVars>>

saveNoteToFile ==
  \E note \in AdapterNotes, failAt \in FailPoints,
     metadataOk \in BOOLEAN, fallbackOk \in BOOLEAN :
    saveNoteToFileCall(note, failAt, metadataOk, fallbackOk)

\* a note whose title is blank
UntitledNote ==
  [id |-> 1, title |-> <<" ">>, type |-> "video", filename |-> <<>>,
   blob |-> "blob1", date |-> 2, tags |-> <<>>]

\* saveNoteToFile called with the note whose title is blank
saveUntitledNoteToFile ==
  \E failAt \in FailPoints, metadataOk \in BOOLEAN, fallbackOk \in BOOLEAN :
    saveNoteToFileCall(UntitledNote, failAt, metadataOk, fallbackOk)

\* the loop of createSubdirectories from position i of SubdirNames on:
\* getDirectoryHandle(subdir, {create: true}) for each name in turn, an
\* exception caught and logged inside the loop.  failing: the names whose
\* call rejects
RECURSIVE createSubdirectoriesFrom(_, _, _)
createSubdirectoriesFrom(i, existing, failing) ==
  IF i > Len(SubdirNames)
    THEN [subdirs |-> existing, attempts |-> <<>>, logs |-> {}]
    ELSE LET subdir == SubdirNames[i]
             rest == createSubdirectoriesFrom(
                       i + 1,
                       IF subdir \in failing THEN existing
                                             ELSE existing \cup {subdir},
                       failing)
         IN [subdirs |-> rest.subdirs,
             attempts |-> <<subdir>> \o rest.attempts,
             logs |-> rest.logs \cup
                      {IF subdir \in failing
                         THEN "Error creating " \o subdir \o " directory"
                         ELSE "Created/verified " \o subdir \o " directory"}]

\* variant: the first failure ends the loop
RECURSIVE createSubdirectoriesUntilFailure(_, _, _)
createSubdirectoriesUntilFailure(i, existing, failing) ==
  IF i > Len(SubdirNames)
    THEN [subdirs |-> existing, attempts |-> <<>>, logs |-> {}]
    ELSE LET subdir == SubdirNames[i]
             rest == createSubdirectoriesUntilFailure(
                       i + 1, existing \cup {subdir}, failing)
         IN IF subdir \in failing
              THEN [subdirs |-> existing, attempts |-> <<subdir>>,
                    logs |-> {"Error creating " \o subdir \o " directory"}]
              ELSE [subdirs |-> rest.subdirs,
                    attempts |-> <<subdir>> \o rest.attempts,
                    logs |-> rest.logs \cup
                             {"Created/verified " \o subdir \o " directory"}]

createSubdirectoriesAborting(existing, failing) ==
  createSubdirectoriesUntilFailure(1, existing, failing)

\* createSubdirectories on a directory that has the subfolders existing
createSubdirectories(existing, failing) ==
  createSubdirectoriesFrom(1, existing, failing)

\* SettingsView.initializeDirectoryStructure with the manager's method.
\* supported: "showDirectoryPicker" in window; picked: the user chooses the
\* directory (the picker rejects otherwise); failing: the subfolders whose
\* getDirectoryHandle(subdir, {create: true}) rejects; setItemOk: the store
\* accepts the directory-initialized flag (storeDirectoryReference catches
\* and logs the exception otherwise)
initializeDirectoryStructureCall(supported, picked, failing, setItemOk) ==
  LET manager == getFileStorageManager(fileStorageInstance, username)
      loop == createSubdirectories(subdirs, failing)
  IN IF ~supported
       THEN /\ fileStorageInstance' = manager
            /\ last' = Report("initializeDirectoryStructure", "void",
                   "File System Access API is not supported", {})
            /\ UNCHANGED <<storeVars, diskVars, username, fn, loginVars, run, viewVars, now,
                           backup, tabVars, widgetVars>>
       ELSE IF ~picked
         THEN /\ fileStorageInstance' = manager
              /\ last' = Report("initializeDirectoryStructure", "false",
                     "Failed to initialize directory structure",
                     {"Failed to initialize directory structure"})
              /\ UNCHANGED <<storeVars, diskVars, username, fn, loginVars, run, viewVars, now,
                             backup, tabVars, widgetVars>>
         ELSE /\ fileStorageInstance' =
                   [manager EXCEPT !.directoryHandle = TRUE]
              /\ subdirs' = loop.subdirs
              /\ ls_dirInit' = IF setItemOk
                                 THEN [ls_dirInit EXCEPT ![username] = TRUE]
                                 ELSE ls_dirInit
              /\ last' = ("attempts" :> loop.attempts)
                   @@ Report("initializeDirectoryStructure", "true",
                        "Directory structure initialized successfully!",
                        loop.logs
                          \cup {"Directory structure initialized successfully"}
                          \cup (IF setItemOk THEN {}
                                ELSE {"Could not store directory reference"}))
              /\ UNCHANGED <<ls_notes, ls_settings, files, username, fn, loginVars, run,
                             viewVars, now, backup, tabVars, widgetVars>>

\* the sets of subfolders whose creation rejects in one call: none, the
\* first, the second, the last two
FailingSubdirs == {{}, {"Text"}, {"Audio"}, {"Audio", "Video"}}

initializeDirectoryStructure ==
  \E supported \in BOOLEAN, picked \in BOOLEAN, failing \in FailingSubdirs,
     setItemOk \in BOOLEAN :
    initializeDirectoryStructureCall(supported, picked, failing, setItemOk)

\* SettingsView.resetDirectoryInitialization with the manager's method
resetDirectoryInitialization ==
  LET manager == getFileStorageManager(fileStorageInstance, username)
  IN /\ ls_dirInit' = [ls_dirInit EXCEPT ![username] = FALSE]
     /\ fileStorageInstance' = [manager EXCEPT !.directoryHandle = FALSE]
     /\ last' = Report("resetDirectoryInitialization", "void",
            "Directory initialization has been reset.", {})
     /\ UNCHANGED <<ls_notes, ls_settings, diskVars, username, fn, loginVars, run, viewVars, now,
                    backup, tabVars, widgetVars>>

(* ------------------------------ LoginForm ----------------------------- *)
\* the setItem calls of handleSignup and handleLogin, by key; each may throw
SignupWrites ==
  <<"mydiary_users", "mydiary_user", "mydiary_remember", "mydiary_settings">>
LoginWrites == <<"mydiary_user", "mydiary_remember">>

\* the setItem of key is reached and accepted when failAt names a later
\* write of the handler, or none
Written(writes, key, failAt) ==
  \/ failAt = "none"
  \/ \E i, j \in DOMAIN writes :
       writes[i] = key /\ writes[j] = failAt /\ i < j

\* onLogin(): the Dashboard is rendered for the user and the settings view
\* is opened; its mount effect runs loadSettings and checkDirectoryStatus
onLogin(user, item) ==
  /\ username' = user
  /\ settings' = loadSettings(item)
  /\ showDeleteConfirm' = FALSE
  /\ timers' = 0
  /\ fileStorageInstance' = getFileStorageManager(fileStorageInstance, user)

\* LoginForm.handleSignup.  failAt: the setItem that throws, if any; the
\* catch block reports it and onLogin is not called
handleSignupCall(user, password, confirmPassword, failAt) ==
  LET users == ls_users
      error ==
        IF password # confirmPassword THEN "Passwords do not match"
        ELSE IF PasswordLength(password) < 6
          THEN "Password must be at least 6 characters long"
        ELSE IF Truthy(Get(users, user)) THEN "Username already exists"
        ELSE IF failAt # "none" THEN "Signup failed. Please try again."
        ELSE ""
      tried == error \in {"", "Signup failed. Please try again."}
      wrote(key) == tried /\ Written(SignupWrites, key, failAt)
  IN /\ username = NoUser
     /\ ls_users' = IF wrote("mydiary_users")
                       THEN (user :> hashPassword(password)) @@ users
                       ELSE ls_users
     /\ ls_user' = IF wrote("mydiary_user") THEN user ELSE ls_user
     /\ ls_remember' = IF wrote("mydiary_remember") THEN "true"
                                                      ELSE ls_remember
     /\ ls_settings' = IF wrote("mydiary_settings")
                          THEN [ls_settings EXCEPT ![user] =
                                  SettingsText(signupSettings)]
                          ELSE ls_settings
     /\ IF error = ""
          THEN onLogin(user, SettingsText(signupSettings))
          ELSE UNCHANGED <<username, viewVars, fileStorageInstance>>
     /\ last' = Report("handleSignup", "void", error, {})
     /\ UNCHANGED <<ls_notes, ls_dirInit, diskVars, fn, now, backup, tabVars,
                    widgetVars, run, pendingSignups>>

\* LoginForm.handleLogin
handleLoginCall(user, password, rememberMe, failAt) ==
  LET users == ls_users
      error ==
        IF ~(Truthy(Get(users, user))
             /\ Get(users, user) = hashPassword(password))
          THEN "Invalid username or password"
        ELSE IF failAt # "none" THEN "Login failed. Please try again."
        ELSE ""
      tried == error \in {"", "Login failed. Please try again."}
      wrote(key) == tried /\ Written(LoginWrites, key, failAt)
  IN /\ username = NoUser
     /\ ls_user' = IF wrote("mydiary_user") THEN user ELSE ls_user
     /\ ls_remember' = IF wrote("mydiary_remember")
                          THEN (IF rememberMe THEN "true" ELSE "false")
                          ELSE ls_remember
     /\ IF error = ""
          THEN onLogin(user, ls_settings[user])
          ELSE UNCHANGED <<username, viewVars, fileStorageInstance>>
     /\ last' = Report("handleLogin", "void", error, {})
     /\ UNCHANGED <<storeVars, ls_users, diskVars, fn, now, backup, tabVars,
                    widgetVars, run, pendingSignups>>

\* Dashboard.handleLogout: the two session keys are removed, onLogout()
\* unmounts the Dashboard and its views
handleLogout ==
  /\ username # NoUser
  /\ ls_user' = NoUser
  /\ ls_remember' = "null"
  /\ username' = NoUser
  /\ settings' = defaultSettings
  /\ showDeleteConfirm' = FALSE
  /\ timers' = 0
  /\ last' = Report("handleLogout", "void", "", {})
  /\ UNCHANGED <<storeVars, ls_users, diskVars, fileStorageInstance, fn, now,
                 backup, tabVars, widgetVars, run, pendingSignups>>

\* a second password of six characters
OtherPassword == "hunter"

\* handleSignup up to its await of hashPassword: the two checks of the
\* password, the read of mydiary_users and the check of the username; the
\* call that passes them waits with the table it has read
handleSignupSubmit(user, password, confirmPassword) ==
  LET users == ls_users
      error ==
        IF password # confirmPassword THEN "Passwords do not match"
        ELSE IF PasswordLength(password) < 6
          THEN "Password must be at least 6 characters long"
        ELSE IF Truthy(Get(users, user)) THEN "Username already exists"
        ELSE ""
      call == [user |-> user, password |-> password, users |-> users]
  IN /\ username = NoUser
     /\ IF error = ""
          THEN /\ call \notin pendingSignups
               /\ Cardinality(pendingSignups) < MaxPending
               /\ pendingSignups' = pendingSignups \cup {call}
          ELSE UNCHANGED pendingSignups
     /\ last' = Report("handleSignup", "void", error, {})
     /\ UNCHANGED <<storeVars, ls_users, ls_user, ls_remember, diskVars,
                    fileStorageInstance, username, viewVars, fn, now, backup,
                    tabVars, widgetVars, run>>

\* handleSignup after its await: the table that was read is written with
\* the new credential, then the session keys and the settings; onLogin()
\* renders the Dashboard unless it is rendered already.  failAt: the
\* setItem that throws, if any
handleSignupResumed(call, failAt) ==
  LET wrote(key) == Written(SignupWrites, key, failAt)
      error == IF failAt # "none" THEN "Signup failed. Please try again."
                                  ELSE ""
  IN /\ call \in pendingSignups
     /\ pendingSignups' = pendingSignups \ {call}
     /\ ls_users' = IF wrote("mydiary_users")
                       THEN (call.user :> hashPassword(call.password))
                              @@ call.users
                       ELSE ls_users
     /\ ls_user' = IF wrote("mydiary_user") THEN call.user ELSE ls_user
     /\ ls_remember' = IF wrote("mydiary_remember") THEN "true"
                                                      ELSE ls_remember
     /\ ls_settings' = IF wrote("mydiary_settings")
                          THEN [ls_settings EXCEPT ![call.user] =
                                  SettingsText(signupSettings)]
                          ELSE ls_settings
     /\ IF error = "" /\ username = NoUser
          THEN onLogin(call.user, SettingsText(signupSettings))
          ELSE UNCHANGED <<username, viewVars, fileStorageInstance>>
     /\ last' = Report("handleSignup", "void", error, {})
     /\ UNCHANGED <<ls_notes, ls_dirInit, diskVars, fn, now, backup, tabVars,
                    widgetVars, run>>

\* the page is loaded again: the module-level singleton of the old page is
\* gone; Home renders the Dashboard when both session keys are there, and
\* the Dashboard and its settings view are mounted for the stored user
Reload ==
  LET remembered == ls_user # NoUser /\ ls_remember = "true"
  IN /\ IF remembered
          THEN /\ username' = ls_user
               /\ settings' = loadSettings(ls_settings[ls_user])
               /\ fileStorageInstance' =
                    getFileStorageManager(NoInstance, ls_user)
          ELSE /\ username' = NoUser
               /\ settings' = defaultSettings
               /\ fileStorageInstance' = NoInstance
     /\ showDeleteConfirm' = FALSE
     /\ timers' = 0
     /\ last' = Report("reload", "void", "", {})
     /\ UNCHANGED <<storeVars, loginVars, diskVars, fn, now, backup, tabVars,
                    widgetVars, run>>

(* --------------------------- SearchFilterView ------------------------- *)
\* the frame of a step of the search view
SearchFrame == UNCHANGED <<appVars, editor, audio, video, confirmTimers>>

\* the elements of a sequence that are in a set (tags?.some / includes)
SomeIn(seq, set) == \E i \in DOMAIN seq : seq[i] \in set

\* the tags of a record, none when it has no tags
TagsOf(note) == IF "tags" \in DOMAIN note THEN note.tags ELSE <<>>

\* the callback of notes.filter: the type, tags and mood filters
PassesFilters(s, note) ==
  /\ s.selectedTypes # {} => note.type \in s.selectedTypes
  /\ s.selectedTags # {} => SomeIn(TagsOf(note), s.selectedTags)
  /\ Truthy(s.selectedMood) => Get(note, "mood") = s.selectedMood

\* the comparator of filtered.sort, sortBy "date"
Compare(s, a, b) ==
  IF s.sortOrder = "asc" THEN a.date - b.date ELSE -(a.date - b.date)

\* Array.prototype.sort is stable: note goes behind every element that does
\* not compare greater
RECURSIVE InsertSorted(_, _, _)
InsertSorted(s, sorted, note) ==
  IF sorted = <<>> THEN <<note>>
  ELSE IF Compare(s, sorted[Len(sorted)], note) <= 0
    THEN Append(sorted, note)
    ELSE Append(InsertSorted(s, SubSeq(sorted, 1, Len(sorted) - 1), note),
                sorted[Len(sorted)])

RECURSIVE SortNotes(_, _)
SortNotes(s, list) ==
  IF list = <<>> THEN <<>>
  ELSE InsertSorted(s, SortNotes(s, SubSeq(list, 1, Len(list) - 1)),
                    list[Len(list)])

\* the memo filteredAndSortedNotes of a view in state s
filteredAndSortedNotes(s) ==
  SortNotes(s, SelectSeq(s.notes, LAMBDA note : PassesFilters(s, note)))

\* the view is mounted for the user: loadNotes
SearchMount ==
  /\ username # NoUser
  /\ CanParse(OrEmptyArray(ls_notes[username]))
  /\ JSONParse(OrEmptyArray(ls_notes[username])).kind = "array"
  /\ search' = [NoSearch EXCEPT !.notes =
                  JSONParse(OrEmptyArray(ls_notes[username])).items]
  /\ SearchFrame

toggleType(type) ==
  /\ search' = [search EXCEPT !.selectedTypes =
                  IF type \in @ THEN @ \ {type} ELSE @ \cup {type}]
  /\ SearchFrame

\* the tags the view offers: allTags
toggleTag(tag) ==
  /\ \E i \in DOMAIN search.notes : SomeIn(TagsOf(search.notes[i]), {tag})
  /\ search' = [search EXCEPT !.selectedTags =
                  IF tag \in @ THEN @ \ {tag} ELSE @ \cup {tag}]
  /\ SearchFrame

\* the values of the mood Select: "any" for the item Any mood, and moods
MoodValues == {"any", "happy", "sad"}

\* the value the mood Select shows: selectedMood || "any"
ShownMood == IF Truthy(search.selectedMood) THEN search.selectedMood ELSE "any"

\* an item of the mood Select is chosen: onValueChange={setSelectedMood}
\* is called with the item's value when it is not the value shown
SelectMood(value) ==
  /\ value # ShownMood
  /\ search' = [search EXCEPT !.selectedMood = value]
  /\ SearchFrame

\* the order button
toggleSortOrder ==
  /\ search' = [search EXCEPT !.sortOrder =
                  IF @ = "asc" THEN "desc" ELSE "asc"]
  /\ SearchFrame

clearFilters ==
  /\ search' = [search EXCEPT !.selectedTypes = {}, !.selectedTags = {},
                              !.selectedMood = ""]
  /\ SearchFrame

(* ----------------------------- two writers ---------------------------- *)
\* Two tabs of the same user run the append of handleSave (lines 57-59).
\* Each tab runs its handler to completion, but the store is shared: the
\* getItem of one tab and the setItem of the other are separate steps.

\* the records a tab appends
TabNotes ==
  { newNote(form, <<>>, Undefined, 0, Undefined, now) :
      form \in {f \in DialogForms : Trim(f.title) # <<>>} }

\* getItem and JSON.parse in tab t
TabRead(t) ==
  /\ tabPc[t] = "idle"
  /\ NotesRoom(username)
  /\ \E note \in TabNotes : tabNote' = [tabNote EXCEPT ![t] = note]
  /\ tabExisting' = [tabExisting EXCEPT ![t] =
                       JSONParse(OrEmptyArray(ls_notes[username]))]
  /\ tabPc' = [tabPc EXCEPT ![t] = "read"]
  /\ UNCHANGED <<storeVars, diskVars, fileStorageInstance, username, fn, loginVars, run, viewVars,
                 now, backup, last, widgetVars>>

\* variant: the list is read again at the time of the write
TabWriteFresh(t) ==
  /\ tabPc[t] = "read"
  /\ ls_notes' = [ls_notes EXCEPT ![username] =
                    JSONStringify(Push(JSONParse(OrEmptyArray(ls_notes[username])),
                                       tabNote[t]))]
  /\ tabPc' = [tabPc EXCEPT ![t] = "done"]
  /\ UNCHANGED <<ls_settings, ls_dirInit, diskVars, fileStorageInstance,
                 username, fn, loginVars, run, viewVars, now, backup, last, tabExisting, tabNote,
                 widgetVars>>

\* push and setItem in tab t: the list the tab read, with its record
TabWrite(t) ==
  /\ tabPc[t] = "read"
  /\ ls_notes' = [ls_notes EXCEPT ![username] =
                    JSONStringify(Push(tabExisting[t], tabNote[t]))]
  /\ tabPc' = [tabPc EXCEPT ![t] = "done"]
  /\ UNCHANGED <<ls_settings, ls_dirInit, diskVars, fileStorageInstance,
                 username, fn, loginVars, run, viewVars, now, backup, last, tabExisting, tabNote,
                 widgetVars>>

\* the dialog of tab t is opened for the next note
TabNext(t) ==
  /\ tabPc[t] = "done"
  /\ tabPc' = [tabPc EXCEPT ![t] = "idle"]
  /\ UNCHANGED <<storeVars, diskVars, fileStorageInstance, username, fn, loginVars, run, viewVars,
                 now, backup, last, tabExisting, tabNote,
                 widgetVars>>

(* ------------------------- the store, from outside -------------------- *)
\* the notes key of the user is overwritten outside the application (the
\* browser's storage inspector, another script of the same origin) with a
\* text that is not JSON
StoreEdited ==
  /\ ls_notes[username] # UnparsableText
  /\ ls_notes' = [ls_notes EXCEPT ![username] = UnparsableText]
  /\ UNCHANGED <<ls_settings, ls_dirInit, diskVars, fileStorageInstance,
                 username, fn, loginVars, run, viewVars, now, backup, last, tabVars, widgetVars>>

(* --------------------------- generateFilename ------------------------- *)
\* 2025-01-15 and 10000-01-01 as days counted from 1970-01-01
Day20250115 == 20103
Day100000101 == 2932897

\* the titles, types and dates generateFilename is called with
FilenameTitles ==
  { <<>>,
    <<"H", "i">>,
    <<"H", "e", "l", "l", "o", ",", " ", "W", "o", "r", "l", "d", "!">>,
    <<"H", "\t", "i">>,
    <<"H", " ", "\t", " ", "i">>,
    <<" ", "H", "i", " ">>,
    <<"!", ",">>,
    <<"1", "!", " ", ",", " ", "W">>,
    <<"H", "i", "!">> }

FilenameDates ==
  { 0, DayLen - 1, DayLen, 0 - 1,
    Day20250115 * DayLen, Day20250115 * DayLen + DayLen - 1,
    Day100000101 * DayLen }

FilenameCalls ==
  { [title |-> title, type |-> type, date |-> date, called |-> FALSE,
     result |-> <<>>] :
      title \in FilenameTitles, type \in Types, date \in FilenameDates }

\* fileStorageManager.generateFilename(title, type, date)
generateFilenameCall ==
  /\ ~fn.called
  /\ fn' = [fn EXCEPT !.called = TRUE,
                       !.result = generateFilename(fn.title, fn.type, fn.date)]
  /\ UNCHANGED <<storeVars, diskVars, fileStorageInstance, username, viewVars,
                 now, backup, last, tabVars, widgetVars, loginVars, run>>

(* ----------------------- TextNoteEditor auto-save --------------------- *)
\* setTimeout(..., 2000), in seconds
AutoSaveDelay == 2

\* the dialog opens the editor: a new component with its own state and refs
EditorMount ==
  /\ editor.instance = 0
  /\ editor.instances < MaxEditors
  /\ editor' = [editor EXCEPT !.instance = editor.instances + 1,
                              !.instances = @ + 1,
                              !.isAutoSaving = FALSE,
                              !.autoSaveTimeoutRef = 0,
                              !.sinceInput = AutoSaveDelay]
  /\ UNCHANGED <<appVars, audio, video, confirmTimers, search>>

\* the editor is closed: the effect's cleanup removes the listener, the
\* time-out that is pending stays
EditorUnmount ==
  /\ editor.instance # 0
  /\ editor' = [editor EXCEPT !.instance = 0,
                              !.isAutoSaving = FALSE,
                              !.autoSaveTimeoutRef = 0]
  /\ UNCHANGED <<appVars, audio, video, confirmTimers, search>>

\* variant: the pending time-out is not cleared
handleInputKeepsTimer ==
  /\ editor.instance # 0
  /\ editor.inputs < MaxInputs
  /\ editor' = [editor EXCEPT
       !.isAutoSaving = TRUE,
       !.timers = @ \cup {[id |-> editor.timerIds + 1,
                           instance |-> editor.instance,
                           remaining |-> AutoSaveDelay]},
       !.autoSaveTimeoutRef = editor.timerIds + 1,
       !.timerIds = @ + 1,
       !.sinceInput = 0,
       !.inputs = @ + 1]
  /\ UNCHANGED <<appVars, audio, video, confirmTimers, search>>

\* handleInput, the listener of the editor's input event
handleInput ==
  /\ editor.instance # 0
  /\ editor.inputs < MaxInputs
  /\ editor' = [editor EXCEPT
       !.isAutoSaving = TRUE,
       !.timers = {t \in @ : editor.autoSaveTimeoutRef = 0
                               \/ t.id # editor.autoSaveTimeoutRef}
                  \cup {[id |-> editor.timerIds + 1,
                         instance |-> editor.instance,
                         remaining |-> AutoSaveDelay]},
       !.autoSaveTimeoutRef = editor.timerIds + 1,
       !.timerIds = @ + 1,
       !.sinceInput = 0,
       !.inputs = @ + 1]
  /\ UNCHANGED <<appVars, audio, video, confirmTimers, search>>

\* one second passes; a time-out that is due may still be waiting for the
\* event loop
EditorSecond ==
  /\ \/ editor.sinceInput < AutoSaveDelay
     \/ \E t \in editor.timers : t.remaining > 0
  /\ editor' = [editor EXCEPT
       !.timers = {[t EXCEPT !.remaining = IF @ > 0 THEN @ - 1 ELSE 0] :
                     t \in @},
       !.sinceInput = IF @ < AutoSaveDelay THEN @ + 1 ELSE @]
  /\ UNCHANGED <<appVars, audio, video, confirmTimers, search>>

\* the callback of a time-out that is due runs: setIsAutoSaving(false) of
\* the component that set it, without effect once that one is unmounted
AutoSaveTimeout ==
  \E t \in editor.timers :
    /\ t.remaining = 0
    /\ editor' = [editor EXCEPT
         !.timers = @ \ {t},
         !.isAutoSaving = IF t.instance = editor.instance THEN FALSE ELSE @]
    /\ UNCHANGED <<appVars, audio, video, confirmTimers, search>>

(* -------------------------- AudioNoteRecorder ------------------------- *)
\* the frame of a step of the audio recorder
AudioFrame ==
  UNCHANGED <<appVars, editor, video, confirmTimers, search>>

\* startRecording up to its await: the button is rendered while
\* recordingState is idle, the call waits for getUserMedia
AudioStartRecording ==
  /\ audio.recordingState = "idle"
  /\ audio.starts < MaxStarts
  /\ audio' = [audio EXCEPT !.awaiting = @ + 1, !.starts = @ + 1]
  /\ AudioFrame

\* the id setInterval returns: one that no live interval and no ref holds
NewIntervalId(a) ==
  CHOOSE id \in 1..(Cardinality(a.intervals) + 2) :
    /\ id \notin a.intervals \cup {a.intervalRef}
    /\ \A other \in 1..(id - 1) : other \in a.intervals \cup {a.intervalRef}

\* the interval setInterval creates, and the ref that holds it
WithNewInterval(a) ==
  [a EXCEPT !.intervals = @ \cup {NewIntervalId(a)},
            !.intervalRef = NewIntervalId(a)]

\* if (intervalRef.current) clearInterval(intervalRef.current)
WithIntervalCleared(a) == [a EXCEPT !.intervals = @ \ {a.intervalRef}]

\* startRecording after its await.  granted: getUserMedia resolves (it
\* rejects otherwise and the catch block alerts)
AudioStartRecordingResumed(granted) ==
  /\ audio.awaiting > 0
  /\ audio' =
       IF granted
         THEN WithNewInterval(
                [audio EXCEPT !.awaiting = @ - 1,
                              !.recorders = Append(@, "recording"),
                              !.mediaRecorderRef = Len(audio.recorders) + 1,
                              !.recordingState = "recording",
                              !.duration = 0])
         ELSE [audio EXCEPT !.awaiting = @ - 1]
  /\ AudioFrame

\* pauseRecording; MediaRecorder.pause() throws on an inactive recorder
AudioPauseRecording ==
  /\ audio.recordingState = "recording"
  /\ audio' =
       IF audio.mediaRecorderRef = 0
            \/ audio.recorders[audio.mediaRecorderRef] = "inactive"
         THEN audio
         ELSE WithIntervalCleared(
                [audio EXCEPT !.recorders[audio.mediaRecorderRef] = "paused",
                              !.recordingState = "paused"])
  /\ AudioFrame

\* resumeRecording; MediaRecorder.resume() throws on an inactive recorder
AudioResumeRecording ==
  /\ audio.recordingState = "paused"
  /\ audio' =
       IF audio.mediaRecorderRef = 0
            \/ audio.recorders[audio.mediaRecorderRef] = "inactive"
         THEN audio
         ELSE WithNewInterval(
                [audio EXCEPT !.recorders[audio.mediaRecorderRef] = "recording",
                              !.recordingState = "recording"])
  /\ AudioFrame

\* stopRecording; MediaRecorder.stop() throws on an inactive recorder and
\* queues the stop event otherwise
AudioStopRecording ==
  /\ audio.recordingState \in {"recording", "paused"}
  /\ audio' =
       IF audio.mediaRecorderRef = 0
            \/ audio.recorders[audio.mediaRecorderRef] = "inactive"
         THEN audio
         ELSE WithIntervalCleared(
                [audio EXCEPT !.recorders[audio.mediaRecorderRef] = "inactive",
                              !.stopEvents = @ \cup {audio.mediaRecorderRef},
                              !.recordingState = "stopped"])
  /\ AudioFrame

\* the onstop handler of a recorder runs: setAudioBlob(blob)
AudioOnStop ==
  \E r \in audio.stopEvents :
    /\ audio' = [audio EXCEPT !.stopEvents = @ \ {r}, !.audioBlob = "blob"]
    /\ AudioFrame

\* clearRecording; the button is rendered while recordingState is stopped
AudioClearRecording ==
  /\ audio.recordingState = "stopped"
  /\ audio' = [audio EXCEPT !.audioBlob = "null", !.recordingState = "idle",
                            !.duration = 0]
  /\ AudioFrame

\* one second passes: the callback of every live interval runs once
AudioSecond ==
  /\ audio.duration + Cardinality(audio.intervals) <= MaxDuration
  /\ audio.duration < MaxDuration
  /\ audio' = [audio EXCEPT !.duration = @ + Cardinality(audio.intervals)]
  /\ AudioFrame

(* -------------------------- VideoNoteRecorder ------------------------- *)
\* the frame of a step of the video recorder
VideoFrame ==
  UNCHANGED <<appVars, editor, audio, confirmTimers, search>>

\* initializeCamera after its await.  granted: getUserMedia resolves and
\* the preview's onloadedmetadata sets cameraReady
VideoCameraInitialized(granted) ==
  /\ video.camera = "initializing"
  /\ video' = [video EXCEPT !.camera = IF granted THEN "ready" ELSE "denied"]
  /\ VideoFrame

\* the title input of the recorder
VideoTitles == {<<" ">>, <<"H", "i", "!">>}

VideoSetTitle(title) ==
  /\ video.title # title
  /\ video' = [video EXCEPT !.title = title]
  /\ VideoFrame

\* startRecording: it has no await.  created: new MediaRecorder(stream,
\* {mimeType: "video/webm"}) succeeds (it throws where the type is not
\* supported and the catch block alerts)
VideoStartRecording(created) ==
  /\ video.recordingState = "idle"
  /\ video.camera = "ready"
  /\ video.starts < MaxStarts
  /\ video' =
       IF created
         THEN WithNewInterval(
                [video EXCEPT !.starts = @ + 1,
                              !.recorders = Append(@, "recording"),
                              !.mediaRecorderRef = Len(video.recorders) + 1,
                              !.recordingState = "recording",
                              !.duration = 0])
         ELSE [video EXCEPT !.starts = @ + 1]
  /\ VideoFrame

VideoPauseRecording ==
  /\ video.recordingState = "recording"
  /\ video' =
       IF video.mediaRecorderRef = 0
            \/ video.recorders[video.mediaRecorderRef] = "inactive"
         THEN video
         ELSE WithIntervalCleared(
                [video EXCEPT !.recorders[video.mediaRecorderRef] = "paused",
                              !.recordingState = "paused"])
  /\ VideoFrame

VideoResumeRecording ==
  /\ video.recordingState = "paused"
  /\ video' =
       IF video.mediaRecorderRef = 0
            \/ video.recorders[video.mediaRecorderRef] = "inactive"
         THEN video
         ELSE WithNewInterval(
                [video EXCEPT !.recorders[video.mediaRecorderRef] = "recording",
                              !.recordingState = "recording"])
  /\ VideoFrame

VideoStopRecording ==
  /\ video.recordingState \in {"recording", "paused"}
  /\ video' =
       IF video.mediaRecorderRef = 0
            \/ video.recorders[video.mediaRecorderRef] = "inactive"
         THEN video
         ELSE WithIntervalCleared(
                [video EXCEPT !.recorders[video.mediaRecorderRef] = "inactive",
                              !.stopEvents = @ \cup {video.mediaRecorderRef},
                              !.recordingState = "stopped"])
  /\ VideoFrame

\* the onstop handler of a recorder runs: setVideoBlob(blob), then
\* generateThumbnail calls canvas.toBlob, whose callback comes later
VideoOnStop ==
  \E r \in video.stopEvents :
    /\ video' = [video EXCEPT !.stopEvents = @ \ {r},
                              !.videoBlob = "blob1",
                              !.toBlobCalls = @ + 1]
    /\ VideoFrame

\* the callback of canvas.toBlob runs.  encoded: it receives a blob (null
\* when the image cannot be created)
VideoToBlobCallback(encoded) ==
  /\ video.toBlobCalls > 0
  /\ video' = [video EXCEPT !.toBlobCalls = @ - 1,
                            !.thumbnailBlob = IF encoded THEN "thumb1" ELSE @]
  /\ VideoFrame

VideoClearRecording ==
  /\ video.recordingState = "stopped"
  /\ video' = [video EXCEPT !.videoBlob = "null", !.thumbnailBlob = "null",
                            !.recordingState = "idle", !.duration = 0]
  /\ VideoFrame

\* one second passes: the callback of every live interval runs once
VideoSecond ==
  /\ video.duration + Cardinality(video.intervals) <= MaxDuration
  /\ video.duration < MaxDuration
  /\ video' = [video EXCEPT !.duration = @ + Cardinality(video.intervals)]
  /\ VideoFrame

\* the Save button of the recorder: disabled={!videoBlob || !title.trim()}
VideoSaveEnabled == video.videoBlob # "null" /\ Trim(video.title) # <<>>

\* what onSave passes to the dialog's handleSave
VideoSaveCall ==
  Call([RecorderForm EXCEPT !.noteType = "video"], Trim(video.title),
       video.videoBlob, video.duration, video.thumbnailBlob)

\* VideoNoteRecorder.handleSave, from the Save button; onSave is the
\* dialog's handleSave
VideoHandleSave(setItemOk) ==
  /\ VideoSaveEnabled
  /\ IF video.thumbnailBlob # "null"
       THEN handleSaveCall(VideoSaveCall, setItemOk)
       ELSE /\ last' = Report("VideoNoteRecorder.handleSave", "returned", "",
                              {})
            /\ UNCHANGED <<storeVars, diskVars, fileStorageInstance, username,
                           viewVars, now, backup, tabVars, fn, loginVars, run,
                           widgetVars>>

(* ------------------- one store for every user ------------------------ *)
\* the number of records a notes key holds
RecordsOf(text) == IF text.kind = "array" THEN Len(text.items) ELSE 0

RECURSIVE RecordsOfAll(_)
RecordsOfAll(users) ==
  IF users = {} THEN 0
  ELSE LET u == CHOOSE u \in users : TRUE
       IN RecordsOf(ls_notes[u]) + RecordsOfAll(users \ {u})

\* the quota of the origin's localStorage, counted in note records
StoreQuota == MaxNotes

\* localStorage.setItem of the notes key of user with a collection of
\* records records: it throws QuotaExceededError when the values of all
\* keys of the origin, those of the other users included, would exceed
\* the quota
setItemAccepts(user, records) ==
  RecordsOfAll(Users \ {user}) + records <= StoreQuota

\* what the store and the session hold before the first operation: nobody
\* is logged in, the acting user has no account, the other user has none
\* either (filled = FALSE) or has signed up, granted a directory, saved
\* dark settings and filled the store with notes (filled = TRUE)
OtherNotes(filled) ==
  IF filled THEN [kind |-> "array",
                  items |-> [i \in 1..StoreQuota |-> ForeignRecord]]
            ELSE Null
OtherSettings(filled) ==
  IF filled THEN SettingsText([defaultSettings EXCEPT !.theme = "dark"])
            ELSE NoSettingsItem
OtherUsers(other, filled) ==
  IF filled THEN other :> hashPassword(GoodPassword) ELSE NoProps

\* no handler has reported since the last report was read
Idle == Report("idle", "void", "", {})

\* the state the acting user of the run can observe: the user's own keys,
\* the session, the views, the directory and the last report
ActorView ==
  [notes |-> ls_notes[run.actor],
   settingsItem |-> ls_settings[run.actor],
   directoryInitialized |-> ls_dirInit[run.actor],
   credential |-> Get(ls_users, run.actor),
   user |-> ls_user, remember |-> ls_remember, currentUser |-> username,
   settings |-> settings, showDeleteConfirm |-> showDeleteConfirm,
   manager |-> fileStorageInstance, subdirs |-> subdirs, files |-> files,
   report |-> last]

\* the first run starts
InitIsolation ==
  /\ \E actor \in Users, filled \in BOOLEAN :
       LET other == CHOOSE u \in Users : u # actor
       IN /\ run = [phase |-> 1, actor |-> actor, other |-> other,
                    filled |-> filled, script |-> <<>>, views |-> <<>>,
                    pos |-> 0]
          /\ ls_notes = [u \in Users |->
                           IF u = other THEN OtherNotes(filled) ELSE Null]
          /\ ls_settings = [u \in Users |->
                              IF u = other THEN OtherSettings(filled)
                                           ELSE NoSettingsItem]
          /\ ls_dirInit = [u \in Users |-> u = other /\ filled]
          /\ ls_users = OtherUsers(other, filled)
  /\ ls_user = NoUser
  /\ ls_remember = "null"
  /\ pendingSignups = {}
  /\ subdirs = {}
  /\ files = [p \in {} |-> ""]
  /\ fileStorageInstance = NoInstance
  /\ username = NoUser
  /\ settings = defaultSettings
  /\ showDeleteConfirm = FALSE
  /\ timers = 0
  /\ now = 0
  /\ backup = NoBackup
  /\ last = Idle
  /\ tabPc = [t \in Tabs |-> "idle"]
  /\ tabExisting = [t \in Tabs |-> EmptyArrayText]
  /\ tabNote = [t \in Tabs |-> NoProps]
  /\ fn = NoFilenameCall
  /\ InitWidgets

\* the first run has ended: the second run starts from the state the first
\* one started from, except that the other user's data are the other way
SecondRun ==
  /\ run.phase = 1
  /\ last = Idle
  /\ run.script # <<>>
  /\ run' = [run EXCEPT !.phase = 2, !.filled = ~run.filled]
  /\ ls_notes' = [u \in Users |->
                    IF u = run.other THEN OtherNotes(~run.filled) ELSE Null]
  /\ ls_settings' = [u \in Users |->
                       IF u = run.other THEN OtherSettings(~run.filled)
                                        ELSE NoSettingsItem]
  /\ ls_dirInit' = [u \in Users |-> u = run.other /\ ~run.filled]
  /\ ls_users' = OtherUsers(run.other, ~run.filled)
  /\ ls_user' = NoUser
  /\ ls_remember' = "null"
  /\ subdirs' = {}
  /\ files' = [p \in {} |-> ""]
  /\ fileStorageInstance' = NoInstance
  /\ username' = NoUser
  /\ settings' = defaultSettings
  /\ showDeleteConfirm' = FALSE
  /\ timers' = 0
  /\ UNCHANGED <<now, backup, last, tabVars, widgetVars, fn, pendingSignups>>

\* the report of the operation that has just run is read.  In the first
\* run the operation and the state it left are written down, in the second
\* run the next operation of the first run comes up
ReportRead ==
  /\ run.phase \in {1, 2}
  /\ last # Idle
  /\ last' = Idle
  /\ run' = IF run.phase = 1
              THEN [run EXCEPT !.script = Append(@, last.op),
                               !.views = Append(@, ActorView)]
              ELSE [run EXCEPT !.pos = @ + 1]
  /\ UNCHANGED <<storeVars, diskVars, fileStorageInstance, username, fn,
                 loginVars, viewVars, now, backup, tabVars, widgetVars>>

\* the operation op is the next one of the run: any operation in the first
\* run while there is room for it, the operation the first run performed at
\* the same position in the second run
Turn(op) ==
  /\ last = Idle
  /\ \/ run.phase = 1 /\ Len(run.script) < MaxScript
     \/ /\ run.phase = 2
        /\ run.pos < Len(run.script)
        /\ run.script[run.pos + 1] = op

\* the operations of the acting user, each with one input.  A write of the
\* notes key is accepted when the store has room for it
IsolationSignup ==
  /\ Turn("handleSignup")
  /\ handleSignupCall(run.actor, GoodPassword, GoodPassword, "none")

IsolationLogin ==
  /\ Turn("handleLogin")
  /\ handleLoginCall(run.actor, GoodPassword, FALSE, "none")

IsolationLogout == Turn("handleLogout") /\ handleLogout

IsolationSave ==
  /\ Turn("handleSave")
  /\ username # NoUser
  /\ \E c \in AudioRecorderCalls :
       handleSaveCall(c, setItemAccepts(username,
                                        RecordsOf(ls_notes[username]) + 1))

IsolationAdapterSave ==
  /\ Turn("saveNoteToFile")
  /\ username # NoUser
  /\ \E note \in {n \in AdapterNotes : n.type = "audio"} :
       LET accepted == setItemAccepts(username,
                                      RecordsOf(ls_notes[username]) + 1)
       IN saveNoteToFileCall(note, "none", accepted, accepted)

IsolationSaveSettings ==
  /\ Turn("saveSettings")
  /\ username # NoUser
  /\ saveSettingsCall(TRUE)

IsolationImport ==
  /\ Turn("importData")
  /\ username # NoUser
  /\ \E file \in {f \in ImportFiles :
                     f.parsable /\ "settings" \in DOMAIN f.doc} :
       importDataOf(file,
                    setItemAccepts(username, RecordsOf(file.doc.notes)),
                    TRUE)

IsolationWipe ==
  /\ Turn("deleteAllData")
  /\ username # NoUser
  /\ deleteAllData

IsolationDirectoryInit ==
  /\ Turn("initializeDirectoryStructure")
  /\ username # NoUser
  /\ initializeDirectoryStructureCall(TRUE, TRUE, {}, TRUE)

IsolationDirectoryReset ==
  /\ Turn("resetDirectoryInitialization")
  /\ username # NoUser
  /\ resetDirectoryInitialization

(* --------------------------- specifications --------------------------- *)
\* CalendarView.loadNotes (the search view and the dashboard read the same
\* way): the parsed collection of a user
ReadAll(user) == JSONParse(OrEmptyArray(ls_notes[user]))

\* the note store in one tab: the dialog's saves, the wipe and its
\* confirmation, the clock.  Every handler runs to completion
Next ==
  \/ SaveNoteButton
  \/ EditorSave
  \/ AudioRecorderSave
  \/ VideoRecorderSave
  \/ deleteAllData
  \/ ConfirmTimeout
  \/ Remount
  \/ Tick

Spec == Init /\ [][Next]_vars

\* the directory export adapter
NextExport ==
  \/ saveNoteToFile
  \/ initializeDirectoryStructure
  \/ resetDirectoryInitialization

SpecExport == Init /\ [][NextExport]_vars

\* manual export and import, with the saves, settings changes and wipes
\* that can come between them
NextBackup ==
  \/ SaveNoteButton
  \/ updateSettings
  \/ saveSettings
  \/ exportData
  \/ importData
  \/ deleteAllData

SpecBackup == Init /\ [][NextBackup]_vars

\* two tabs appending to the same notes key
NextTabs ==
  \/ \E t \in Tabs : TabRead(t)
  \/ \E t \in Tabs : TabWrite(t)
  \/ \E t \in Tabs : TabNext(t)
  \/ Tick

SpecTabs == Init /\ [][NextTabs]_vars

\* the appends on a notes key that something other than the application
\* has written
NextForeignStore ==
  \/ SaveNoteButton
  \/ saveNoteToFile
  \/ initializeDirectoryStructure
  \/ StoreEdited

SpecForeignStore == Init /\ [][NextForeignStore]_vars

\* the saves of the dialog and of the adapter, with and without a title
NextTitles ==
  \/ SaveNoteButton
  \/ EditorSave
  \/ saveNoteToFile
  \/ saveUntitledNoteToFile
  \/ Tick

SpecTitles == Init /\ [][NextTitles]_vars

\* one user's operations, run twice from states that differ in the other
\* user's data only
NextIsolation ==
  \/ IsolationSignup
  \/ IsolationLogin
  \/ IsolationLogout
  \/ IsolationSave
  \/ IsolationAdapterSave
  \/ IsolationSaveSettings
  \/ IsolationImport
  \/ IsolationWipe
  \/ IsolationDirectoryInit
  \/ IsolationDirectoryReset
  \/ ReportRead
  \/ SecondRun

SpecIsolation == InitIsolation /\ [][NextIsolation]_vars

\* the editor's auto-save indicator; seconds keep passing and a time-out
\* that is due runs
NextEditor ==
  \/ EditorMount
  \/ EditorUnmount
  \/ handleInput
  \/ EditorSecond
  \/ AutoSaveTimeout

SpecEditor ==
  /\ Init
  /\ [][NextEditor]_vars
  /\ WF_vars(EditorSecond)
  /\ WF_vars(AutoSaveTimeout)

\* the audio recorder: the user's clicks, the answers of getUserMedia, the
\* stop events and the seconds, in any order
NextAudioRecorder ==
  \/ AudioStartRecording
  \/ \E granted \in BOOLEAN : AudioStartRecordingResumed(granted)
  \/ AudioPauseRecording
  \/ AudioResumeRecording
  \/ AudioStopRecording
  \/ AudioOnStop
  \/ AudioClearRecording
  \/ AudioSecond

SpecAudioRecorder == Init /\ [][NextAudioRecorder]_vars

\* the video recorder: the user's clicks, the camera, the stop events, the
\* thumbnail callbacks and the seconds, in any order
NextVideoRecorder ==
  \/ \E granted \in BOOLEAN : VideoCameraInitialized(granted)
  \/ \E title \in VideoTitles : VideoSetTitle(title)
  \/ \E created \in BOOLEAN : VideoStartRecording(created)
  \/ VideoPauseRecording
  \/ VideoResumeRecording
  \/ VideoStopRecording
  \/ VideoOnStop
  \/ \E encoded \in BOOLEAN : VideoToBlobCallback(encoded)
  \/ VideoClearRecording
  \/ VideoSecond
  \/ \E setItemOk \in BOOLEAN : VideoHandleSave(setItemOk)

SpecVideoRecorder == Init /\ [][NextVideoRecorder]_vars

\* the recording states of both recorders: the clicks, the answers of
\* getUserMedia and the stop events, in any order
NextRecorders ==
  \/ AudioStartRecording
  \/ \E granted \in BOOLEAN : AudioStartRecordingResumed(granted)
  \/ AudioPauseRecording
  \/ AudioResumeRecording
  \/ AudioStopRecording
  \/ AudioOnStop
  \/ AudioClearRecording
  \/ \E granted \in BOOLEAN : VideoCameraInitialized(granted)
  \/ \E created \in BOOLEAN : VideoStartRecording(created)
  \/ VideoPauseRecording
  \/ VideoResumeRecording
  \/ VideoStopRecording
  \/ VideoOnStop
  \/ VideoClearRecording

SpecRecorders == Init /\ [][NextRecorders]_vars

\* the adapter's save with every outcome of its export and of its appends,
\* on a directory that is granted or not and on a notes key that may have
\* been written from outside
DirectoryGranted == initializeDirectoryStructureCall(TRUE, TRUE, {}, TRUE)

NextReturnValue ==
  \/ saveNoteToFile
  \/ DirectoryGranted
  \/ StoreEdited

SpecReturnValue == Init /\ [][NextReturnValue]_vars

\* the note saved through the adapter while the flag is followed
FlagNotes == {n \in AdapterNotes : n.type = "audio"}

\* the directory flag and the singleton across users and page loads
NextDirectoryFlag ==
  \/ initializeDirectoryStructure
  \/ resetDirectoryInitialization
  \/ handleLogout
  \/ \E user \in Users :
       handleSignupCall(user, GoodPassword, GoodPassword, "none")
  \/ \E user \in Users, rememberMe \in BOOLEAN :
       handleLoginCall(user, GoodPassword, rememberMe, "none")
  \/ Reload
  \/ \E note \in FlagNotes :
       username # NoUser /\ saveNoteToFileCall(note, "none", TRUE, TRUE)

SpecDirectoryFlag == Init /\ [][NextDirectoryFlag]_vars

\* the search view on the notes the dialog has saved
NextSearch ==
  \/ SaveNoteButton
  \/ Tick
  \/ SearchMount
  \/ \E type \in Types : toggleType(type)
  \/ \E tag \in {<<"W">>} : toggleTag(tag)
  \/ \E value \in MoodValues : SelectMood(value)
  \/ toggleSortOrder
  \/ clearFilters

SpecSearch == Init /\ [][NextSearch]_vars

\* the passwords the forms are submitted with
Passwords == {GoodPassword, OtherPassword, ShortPassword}

\* the login form and the signup form, submitted in any order, also while
\* an earlier signup is waiting for its hash
NextAccounts ==
  \/ \E user \in Users, password \in Passwords, confirmPassword \in Passwords :
       handleSignupSubmit(user, password, confirmPassword)
  \/ \E call \in pendingSignups, failAt \in {"none", "mydiary_user"} :
       handleSignupResumed(call, failAt)
  \/ \E user \in Users, password \in Passwords, rememberMe \in BOOLEAN,
        failAt \in {"none", "mydiary_remember"} :
       handleLoginCall(user, password, rememberMe, failAt)
  \/ handleLogout

SpecAccounts == Init /\ [][NextAccounts]_vars

\* the Danger Zone button with the time its time-outs take, and the
\* dialog's Save Note button
NextConfirm ==
  \/ deleteAllDataTimed
  \/ ConfirmSecond
  \/ ConfirmTimeoutTimed
  \/ SaveNoteButton

SpecConfirm ==
  /\ Init
  /\ [][NextConfirm]_vars
  /\ WF_vars(ConfirmSecond)
  /\ WF_vars(ConfirmTimeoutTimed)

\* generateFilename on each of its inputs
InitFilename == InitProgram /\ fn \in FilenameCalls /\ run = NoRun

NextFilename == generateFilenameCall

SpecFilename == InitFilename /\ [][NextFilename]_vars

(* ------------------------------ properties ---------------------------- *)
\* new is old with one record appended at the end
AppendedOne(old, new) ==
  /\ new.kind = "array"
  /\ OrEmptyArray(old).kind = "array"
  /\ Len(new.items) = Len(OrEmptyArray(old).items) + 1
  /\ SubSeq(new.items, 1, Len(new.items) - 1) = OrEmptyArray(old).items

LastOf(list) == list.items[Len(list.items)]

\* the export of note by the current manager runs to the end of close()
ExportCompletes(note, failAt) ==
  /\ getFileStorageManager(fileStorageInstance, username).directoryHandle
  /\ RejectsAt(note, failAt) = "none"

\* C1: whenever the export attempted by saveNoteToFile does not complete,
\* the note is appended to the collection with savedToFile = false and the
\* directory holds no trace of the attempt.  Stated for the calls in which
\* the store accepts every write.
C1_FailedExportLeavesNoFile ==
  [][\A note \in AdapterNotes, failAt \in FailPoints :
       (saveNoteToFileCall(note, failAt, TRUE, TRUE)
          /\ ~ExportCompletes(note, failAt))
       => /\ AppendedOne(ls_notes[username], ls_notes'[username])
          /\ LastOf(ls_notes'[username]).id = note.id
          /\ LastOf(ls_notes'[username]).title = note.title
          /\ LastOf(ls_notes'[username]).type = note.type
          /\ LastOf(ls_notes'[username]).savedToFile = FALSE
          /\ files' = files]_vars

\* C2: a completed saveNoteToFile call ends in exactly one of two outcomes:
\* (a) the file is written and closed and one shadow record with
\* savedToFile = true is appended, or (b) the directory has no file from
\* the call and one record with savedToFile = false is appended.  Stated
\* for the calls in which the store accepts every write.
C2_FileOrFallbackNeverBoth ==
  [][\A note \in AdapterNotes, failAt \in FailPoints :
       saveNoteToFileCall(note, failAt, TRUE, TRUE)
       => LET appended == AppendedOne(ls_notes[username], ls_notes'[username])
              record == LastOf(ls_notes'[username])
              fileOutcome ==
                /\ files' = (PathOf(note) :> WrittenData(note)) @@ files
                /\ appended /\ record.savedToFile = TRUE
              fallbackOutcome ==
                /\ files' = files
                /\ appended /\ record.savedToFile = FALSE
          IN (fileOutcome \/ fallbackOutcome)
             /\ ~(fileOutcome /\ fallbackOutcome)]_vars

\* C3: a record appended by handleSave or by the adapter's fallback is read
\* back from the collection with every field unchanged, the binary payload
\* included.
C3_AppendReadRoundTrip ==
  [][/\ \A c \in DialogCalls :
          (handleSaveCall(c, TRUE) /\ last'.ret = "saved")
          => /\ AppendedOne(ReadAll(username), ReadAll(username)')
             /\ LastOf(ReadAll(username)') =
                  newNote(c.form, c.noteTitle, c.noteContent, c.duration,
                          c.thumbnail, now)
     /\ \A note \in AdapterNotes, failAt \in FailPoints :
          (saveNoteToFileCall(note, failAt, TRUE, TRUE)
             /\ ~ExportCompletes(note, failAt))
          => /\ AppendedOne(ReadAll(username), ReadAll(username)')
             /\ LastOf(ReadAll(username)') = noteDataOf(note)]_vars

\* C4: every save of the dialog first has the adapter attempt the export,
\* and writes the full record only after that attempt failed: the handler
\* reports the adapter's fallback and the record carries savedToFile = false.
C4_DialogSaveGoesThroughAdapter ==
  [][(last'.op = "handleSave" /\ last'.ret = "saved"
        /\ ls_notes' # ls_notes)
     => /\ last'.logs \cap {"No directory handle available",
                            "Error saving note to file"} # {}
        /\ "savedToFile" \in DOMAIN LastOf(ReadAll(username)')
        /\ LastOf(ReadAll(username)').savedToFile = FALSE]_vars

\* C5: when both tabs have read the same list before either wrote, then once
\* both appends are done the stored collection is the list one tab read
\* plus that tab's record alone: the other append is lost, undetected.
C5_LostUpdate ==
  (tabPc[1] = "done" /\ tabPc[2] = "done" /\ tabExisting[1] = tabExisting[2])
  => /\ Len(ReadAll(username).items) = Len(tabExisting[1].items) + 1
     /\ \E t \in Tabs :
          ReadAll(username) = JSONStringify(Push(tabExisting[t], tabNote[t]))

C5_Witness ==
  /\ tabPc[1] = "done" /\ tabPc[2] = "done"
  /\ tabExisting[1] = tabExisting[2]
  /\ StringifyObject(tabNote[1]) # StringifyObject(tabNote[2])
  /\ LastOf(ReadAll(username)) = StringifyObject(tabNote[2])
  /\ \A i \in DOMAIN ReadAll(username).items :
       ReadAll(username).items[i] # StringifyObject(tabNote[1])

\* what a step does to the collection of user
Unchanged(user) == ls_notes'[user] = ls_notes[user]
Appended(user) == AppendedOne(ls_notes[user], ls_notes'[user])
Wiped(user) ==
  /\ user = username
  /\ showDeleteConfirm
  /\ last'.op = "deleteAllData"
  /\ ls_notes'[user] = Null
Imported(user) ==
  /\ user = username
  /\ last'.op = "importData"
  /\ \E file \in ImportFiles :
       /\ file.parsable
       /\ "notes" \in DOMAIN file.doc
       /\ ls_notes'[user] = JSONStringify(file.doc.notes)

C7_UniqueIds ==
  \A user \in Users :
    \A i, j \in DOMAIN ReadAll(user).items :
      i # j => ReadAll(user).items[i].id # ReadAll(user).items[j].id

\* C8: after a confirmed deleteAllData the user's collection reads as the
\* empty list and the user's settings key is absent.
C8_WipeThenReadAllEmpty ==
  [][(deleteAllData /\ showDeleteConfirm)
     => /\ ReadAll(username)' = EmptyArrayText
        /\ ls_settings'[username] = NoSettingsItem]_vars

\* the confirmed wipe has run: both keys of the user are gone
C8_Witness ==
  /\ last.op = "deleteAllData"
  /\ last.alert = "All data has been deleted."
  /\ ls_notes[username] = Null
  /\ ls_settings[username] = NoSettingsItem

\* C9: the notes and settings keys are removed only by a deleteAllData that
\* finds showDeleteConfirm true; a deleteAllData that finds it false sets
\* it and leaves every stored key as it is.
C9_TwoStepWipe ==
  [][/\ \A user \in Users :
          ((ls_notes[user] # Null /\ ls_notes'[user] = Null)
             \/ (ls_settings[user] # NoSettingsItem
                   /\ ls_settings'[user] = NoSettingsItem))
          => (showDeleteConfirm /\ deleteAllData /\ user = username)
     /\ (deleteAllData /\ ~showDeleteConfirm)
          => (showDeleteConfirm' /\ UNCHANGED storeVars)]_vars

\* the first click has armed the confirmation and the notes are still there
C9_Witness ==
  /\ last.op = "deleteAllData"
  /\ last.alert = ""
  /\ showDeleteConfirm
  /\ ReadAll(username).items # <<>>

\* exportData writes the parsed collection and the settings state into the
\* document
ExportCaptures ==
  exportData => /\ backup'.notes = ReadAll(username)
                /\ backup'.settings = settings

\* after the import of the exported document the stored notes and settings
\* are those of the document
Restored ==
  /\ ReadAll(username)' = backup.notes
  /\ ls_settings'[username] = SettingsText(backup.settings)

ReplacedBy(doc) ==
  /\ ls_notes'[username] =
       IF "notes" \in DOMAIN doc THEN JSONStringify(doc.notes)
                                 ELSE ls_notes[username]
  /\ ls_settings'[username] =
       IF "settings" \in DOMAIN doc THEN SettingsText(doc.settings)
                                    ELSE ls_settings[username]

\* C11: importData is all-or-nothing: for every document and every write
\* that the store rejects, either the stored notes and the stored settings
\* both become the document's values, or neither of the two keys changes;
\* the stored notes are never a merge of the old and the imported ones.
C11_ImportAllOrNothing ==
  [][\A file \in ImportFiles, notesOk \in BOOLEAN, settingsOk \in BOOLEAN :
       importDataOf(file, notesOk, settingsOk)
       => \/ (file.parsable /\ ReplacedBy(file.doc))
          \/ UNCHANGED <<ls_notes, ls_settings>>]_vars

\* s with every run of characters of ws replaced by one underscore
RunsToUnderscore(s, ws) ==
  LET marked == [i \in DOMAIN s |->
                   IF s[i] \notin ws THEN s[i]
                   ELSE IF i > 1 /\ s[i - 1] \in ws THEN "" ELSE "_"]
  IN SelectSeq(marked, LAMBDA c : c # "")

\* the UTC day of a date written YYYY-MM-DD
YearMonthDay(date) ==
  LET c == CivilFromDays(date \div DayLen)
  IN PadStart(c.year, 4) \o "-" \o PadStart(c.month, 2) \o "-"
       \o PadStart(c.day, 2)

ExtensionOf(type) ==
  CASE type = "text" -> ".txt" [] type = "audio" -> ".mp3"
    [] type = "video" -> ".mp4"

HelloWorld ==
  <<"H", "e", "l", "l", "o", ",", " ", "W", "o", "r", "l", "d", "!">>

\* for title "Hello, World!", type text and a date on 2025-01-15 the name is
\* 2025-01-15_Hello_World.txt
HelloWorldExample ==
  (fn.called /\ fn.title = HelloWorld /\ fn.type = "text"
     /\ fn.date \div DayLen = Day20250115)
  => fn.result = <<"2025-01-15", "_", "H", "e", "l", "l", "o", "_",
                   "W", "o", "r", "l", "d", ".txt">>

ShadowsOf(list, filename) ==
  { i \in DOMAIN list.items :
      /\ "filename" \in DOMAIN list.items[i]
      /\ list.items[i].filename = filename
      /\ list.items[i].savedToFile = TRUE }

\* C13: when a saveNoteToFile call completes for a note whose subfolder and
\* file name are those of an earlier completed call, the directory has the
\* same files as before, the file holds the content of the second note, the
\* call returns true and logs only its success, and the collection holds
\* two shadow records with that file name.
C13_SecondSaveOverwrites ==
  [][\A note \in AdapterNotes :
       (/\ last'.op = "saveNoteToFile"
        /\ ExportCompletes(note, "none")
        /\ ShadowsOf(ReadAll(username), PathOf(note)[2]) # {}
        /\ saveNoteToFileCall(note, "none", TRUE, TRUE))
       => /\ DOMAIN files' = DOMAIN files
          /\ files'[PathOf(note)] = WrittenData(note)
          /\ \A path \in DOMAIN files \ {PathOf(note)} :
               files'[path] = files[path]
          /\ last'.ret = "true"
          /\ last'.alert = ""
          /\ last'.logs = {"Successfully saved note"}
          /\ Cardinality(ShadowsOf(ReadAll(username)', PathOf(note)[2])) >= 2]_vars

\* the note "Hi!" without content was exported over the file of the note
\* "Hi" of the same day: one file, empty, and two shadow records
C13_Witness ==
  /\ last.op = "saveNoteToFile" /\ last.ret = "true"
  /\ DOMAIN files = {<<"Text", generateFilename(<<"H", "i">>, "text", 0)>>}
  /\ files[<<"Text", generateFilename(<<"H", "i">>, "text", 0)>>] = ""
  /\ Len(ReadAll(username).items) = 2
  /\ ReadAll(username).items[1].title = <<"H", "i">>
  /\ ReadAll(username).items[2].title = <<"H", "i", "!">>
  /\ ShadowsOf(ReadAll(username), generateFilename(<<"H", "i">>, "text", 0))
       = {1, 2}

\* record is the reduced projection of note: id, title, type, file name,
\* date, tags, mood, duration and savedToFile = true, nothing else
IsShadowOf(record, note, filename) ==
  /\ DOMAIN record \subseteq {"id", "title", "type", "filename", "date",
                              "tags", "mood", "duration", "savedToFile"}
  /\ record.id = note.id
  /\ record.title = note.title
  /\ record.type = note.type
  /\ record.filename = filename
  /\ record.date = note.date
  /\ record.tags = note.tags
  /\ \A p \in {"mood", "duration"} :
       /\ p \in DOMAIN record <=> p \in DOMAIN note
       /\ p \in DOMAIN note => record[p] = note[p]
  /\ record.savedToFile = TRUE

\* the file note was written to lies in the subfolder of its type
InMatchingSubfolder(note) ==
  LET folder == CASE note.type = "text" -> "Text"
                  [] note.type = "audio" -> "Audio"
                  [] note.type = "video" -> "Video"
  IN \E name \in {path[2] : path \in DOMAIN files'} :
       /\ <<folder, name>> \in DOMAIN files'
       /\ files'[<<folder, name>>] = WrittenData(note)
       /\ IsShadowOf(LastOf(ReadAll(username)'), note, name)

AttemptsAllSubfolders(failing) ==
  /\ last'.attempts = <<"Text", "Audio", "Video">>
  /\ subdirs' = subdirs \cup ({"Text", "Audio", "Video"} \ failing)
  /\ files' = files
  /\ last'.ret = "true"
  /\ {"Text", "Audio", "Video"} \subseteq subdirs => subdirs' = subdirs

\* C15 as stated: once the user has granted a directory, creation is
\* attempted for Text, Audio and Video in that order whichever of them
\* fail, the call returns true and the directory-initialized flag is set;
\* a call on a directory that has the three subfolders changes nothing in it.
C15_SubfolderFailureDoesNotAbort ==
  [][\A failing \in FailingSubdirs, setItemOk \in BOOLEAN :
       (/\ last'.op = "initializeDirectoryStructure"
        /\ initializeDirectoryStructureCall(TRUE, TRUE, failing, setItemOk))
       => /\ AttemptsAllSubfolders(failing)
          /\ ls_dirInit'[username] = TRUE]_vars

\* C15 as amended: the same, the flag being set when the store accepts its
\* write and left as it was when the store rejects it.
C15_SubfolderFailureDoesNotAbortFlagIfStored ==
  [][\A failing \in FailingSubdirs, setItemOk \in BOOLEAN :
       (/\ last'.op = "initializeDirectoryStructure"
        /\ initializeDirectoryStructureCall(TRUE, TRUE, failing, setItemOk))
       => /\ AttemptsAllSubfolders(failing)
          /\ ls_dirInit'[username] = (setItemOk \/ ls_dirInit[username])]_vars

\* the creation of Text failed in a granted call on the empty directory:
\* Audio and Video are there, the call returned true and the flag is set
C15_Witness ==
  /\ last.op = "initializeDirectoryStructure" /\ last.ret = "true"
  /\ "Error creating Text directory" \in last.logs
  /\ subdirs = {"Audio", "Video"}
  /\ ls_dirInit[username] = TRUE

\* the notes key of the user is absent or holds a text that is not JSON
AbsentOrUnparsable == ls_notes[username].kind \in {"null", "unparsable"}

\* the stored collection is the one-element list holding record
HoldsOnly(record) ==
  /\ ls_notes'[username].kind = "array"
  /\ ls_notes'[username].items = <<StringifyObject(record)>>

\* C16: an append that finds the notes key absent or holding a text that is
\* not JSON, the store accepting the write, leaves the one-element list
\* holding its record: the record of handleSave, the full record of
\* saveToLocalStorage when the export did not complete, the shadow record of
\* saveMetadataToLocalStorage when it did.
C16_AbsentAndUnparsableReadAsEmpty ==
  [][/\ \A c \in SaveNoteButtonCalls :
          (/\ last'.op = "handleSave"
           /\ AbsentOrUnparsable
           /\ handleSaveCall(c, TRUE))
          => HoldsOnly(newNote(c.form, c.noteTitle, c.noteContent,
                               c.duration, c.thumbnail, now))
     /\ \A note \in AdapterNotes, failAt \in FailPoints :
          (/\ last'.op = "saveNoteToFile"
           /\ AbsentOrUnparsable
           /\ saveNoteToFileCall(note, failAt, TRUE, TRUE))
          => IF ExportCompletes(note, failAt)
               THEN HoldsOnly(metadataOf(note, PathOf(note)[2]))
               ELSE HoldsOnly(noteDataOf(note))]_vars

\* C17: when the store rejects every write, a save (handleSave of the
\* dialog, saveNoteToFile of the adapter) ends without an exception, leaves
\* the stored collection as it was and returns false to its caller.
C17_RejectedWriteReturnsFalse ==
  [][/\ \A c \in SaveNoteButtonCalls :
          (last'.op = "handleSave" /\ handleSaveCall(c, FALSE))
          => /\ last'.ret = "false"
             /\ ls_notes' = ls_notes
     /\ \A note \in AdapterNotes, failAt \in FailPoints :
          (last'.op = "saveNoteToFile"
             /\ saveNoteToFileCall(note, failAt, FALSE, FALSE))
          => /\ last'.ret = "false"
             /\ ls_notes' = ls_notes]_vars

\* the type/payload invariant of a record: a text record has no audioData
\* and no videoData; an audio record has a blob in audioData, no text in
\* content and no videoData; a video record has a blob in videoData, no
\* text in content and no audioData
TypePayloadInvariant(record) ==
  LET audioData == Get(record, "audioData")
      videoData == Get(record, "videoData")
      content == Get(record, "content")
  IN CASE record.type = "text" ->
            audioData = Undefined /\ videoData = Undefined
       [] record.type = "audio" ->
            audioData \in Blobs /\ ~Truthy(content) /\ videoData = Undefined
       [] record.type = "video" ->
            videoData \in Blobs /\ ~Truthy(content) /\ audioData = Undefined

\* C18: every record that the dialog appends from its "Save Note" button,
\* whatever note type is selected, and every record that the adapter's
\* fallback appends, satisfies the type/payload invariant.
C18_TypePayloadInvariant ==
  [][/\ \A c \in SaveNoteButtonCalls :
          (/\ last'.op = "handleSave" /\ last'.ret = "saved"
           /\ handleSaveCall(c, TRUE))
          => TypePayloadInvariant(newNote(c.form, c.noteTitle, c.noteContent,
                                          c.duration, c.thumbnail, now))
     /\ \A note \in AdapterNotes, failAt \in FailPoints :
          (/\ last'.op = "saveNoteToFile"
           /\ ~ExportCompletes(note, failAt)
           /\ saveNoteToFileCall(note, failAt, TRUE, TRUE))
          => TypePayloadInvariant(noteDataOf(note))]_vars

\* C19: every record of every user's collection has a title that is not
\* empty after trimming.
C19_TitlesNotBlank ==
  \A user \in Users :
    ls_notes[user].kind = "array"
    => \A i \in DOMAIN ls_notes[user].items :
         Trim(ls_notes[user].items[i].title) # <<>>

(* C20: while one user operates (signup, login, save note, adapter save,   *)
(* save settings, import, wipe, directory init and reset), the other       *)
(* user's notes collection, settings, directory-initialized flag and       *)
(* stored credential do not change; and the same operations run from two   *)
(* states that differ only in the other user's data leave the same state   *)
(* visible to the acting user after each of them.                          *)
OtherUnchanged ==
  /\ ls_notes'[run.other] = ls_notes[run.other]
  /\ ls_settings'[run.other] = ls_settings[run.other]
  /\ ls_dirInit'[run.other] = ls_dirInit[run.other]
  /\ Get(ls_users', run.other) = Get(ls_users, run.other)

\* in the second run, the state an operation leaves is the one it left in
\* the first run
SameActorView ==
  (run.phase = 2 /\ last # Idle) => ActorView = run.views[run.pos + 1]

C20_OtherUserIsolation ==
  [][(run' = run => OtherUnchanged) /\ SameActorView']_vars

(* C21: in TextNoteEditor each input event cancels the pending auto-save  *)
(* time-out and starts a new one of 2 seconds, so at most one is pending   *)
(* for the editor at any time; isAutoSaving is true from an input event    *)
(* until a time-out runs; a time-out runs only when no input event         *)
(* occurred in the 2 seconds before; and once input stops isAutoSaving     *)
(* eventually becomes false.                                               *)
EditorTimers == {t \in editor.timers : t.instance = editor.instance}

OneAutoSaveTimer ==
  /\ Cardinality(EditorTimers) <= 1
  /\ editor.isAutoSaving <=> EditorTimers # {}

InputRestartsTimer ==
  handleInput =>
    EditorTimers' = {[id |-> editor'.autoSaveTimeoutRef,
                      instance |-> editor.instance,
                      remaining |-> AutoSaveDelay]}

\* a time-out of the mounted editor has run
TimeoutRan ==
  /\ editor'.instance = editor.instance
  /\ editor'.inputs = editor.inputs
  /\ EditorTimers' # EditorTimers
  /\ EditorTimers' \subseteq EditorTimers

TimeoutAfterQuietTime ==
  TimeoutRan => editor.sinceInput = AutoSaveDelay /\ ~editor'.isAutoSaving

C21_AutoSaveTimer ==
  /\ []OneAutoSaveTimer
  /\ [][InputRestartsTimer /\ TimeoutAfterQuietTime]_vars
  /\ \A n \in 0..MaxInputs :
       (editor.isAutoSaving /\ editor.inputs = n)
         ~> (~editor.isAutoSaving \/ editor.inputs > n)

\* a second input event has replaced the time-out of the first
C21_Witness ==
  /\ editor.inputs >= 2
  /\ editor.isAutoSaving
  /\ \E t \in editor.timers :
       t.id >= 2 /\ t.instance = editor.instance /\ t.remaining < AutoSaveDelay

(* C22: in both recorders the recorded blob is produced only by the       *)
(* recorder's stop event: it is null in the states idle, recording and     *)
(* paused, it becomes non-null only after stopRecording, and it is null    *)
(* again once clearRecording has returned the component to idle, whatever  *)
(* the order of the onstop callback and the user's clicks.                 *)
BlobOnlyWhenStopped ==
  /\ audio.audioBlob # "null" => audio.recordingState = "stopped"
  /\ video.videoBlob # "null" => video.recordingState = "stopped"

BlobOnlyFromStopEvent ==
  /\ (audio.audioBlob = "null" /\ audio'.audioBlob # "null")
       => audio.stopEvents # {} /\ audio'.stopEvents # audio.stopEvents
  /\ (video.videoBlob = "null" /\ video'.videoBlob # "null")
       => video.stopEvents # {} /\ video'.stopEvents # video.stopEvents

C22_BlobOnlyAtStop == []BlobOnlyWhenStopped /\ [][BlobOnlyFromStopEvent]_vars

(* C24: in both recorders recordingState changes only along idle ->        *)
(* recording (startRecording succeeded), recording -> paused               *)
(* (pauseRecording), paused -> recording (resumeRecording), recording or   *)
(* paused -> stopped (stopRecording), stopped -> idle (clearRecording); a   *)
(* failed startRecording leaves the state idle; no timer stops or cancels  *)
(* a recording.                                                            *)
AudioTransition ==
  LET from == audio.recordingState
      to == audio'.recordingState
  IN /\ from # to =>
          \/ from = "idle" /\ to = "recording"
               /\ AudioStartRecordingResumed(TRUE)
          \/ from = "recording" /\ to = "paused" /\ AudioPauseRecording
          \/ from = "paused" /\ to = "recording" /\ AudioResumeRecording
          \/ from \in {"recording", "paused"} /\ to = "stopped"
               /\ AudioStopRecording
          \/ from = "stopped" /\ to = "idle" /\ AudioClearRecording
     /\ (audio'.awaiting < audio.awaiting /\ AudioStartRecordingResumed(FALSE))
          => from = "idle" /\ to = "idle"

VideoTransition ==
  LET from == video.recordingState
      to == video'.recordingState
  IN /\ from # to =>
          \/ from = "idle" /\ to = "recording" /\ VideoStartRecording(TRUE)
          \/ from = "recording" /\ to = "paused" /\ VideoPauseRecording
          \/ from = "paused" /\ to = "recording" /\ VideoResumeRecording
          \/ from \in {"recording", "paused"} /\ to = "stopped"
               /\ VideoStopRecording
          \/ from = "stopped" /\ to = "idle" /\ VideoClearRecording
     /\ (video'.starts > video.starts /\ VideoStartRecording(FALSE))
          => from = "idle" /\ to = "idle"

C24_RecordingTransitions == [][AudioTransition /\ VideoTransition]_vars

(* C27: in AudioNoteRecorder at most one duration interval is live at any  *)
(* time and none is live in the states idle, paused and stopped, so the    *)
(* duration counter increases only while recordingState is recording and   *)
(* by exactly 1 per elapsed second, also when startRecording is invoked    *)
(* again while an earlier invocation is still waiting for getUserMedia.    *)
OneLiveInterval ==
  /\ Cardinality(audio.intervals) <= 1
  /\ audio.recordingState # "recording" => audio.intervals = {}

DurationCountsSeconds ==
  /\ audio'.duration > audio.duration
       => audio.recordingState = "recording"
          /\ audio'.duration = audio.duration + 1
  /\ (AudioSecond /\ audio.recordingState = "recording")
       => audio'.duration = audio.duration + 1

C27_OneDurationInterval ==
  []OneLiveInterval /\ [][DurationCountsSeconds]_vars

(* C28: in VideoNoteRecorder, whenever the Save button is enabled (a video *)
(* blob is there and the trimmed title is not empty), a click on it        *)
(* invokes onSave with the title, the video blob, the thumbnail and the    *)
(* duration: no reachable state has Save enabled and a handleSave that     *)
(* does nothing.                                                           *)
SaveEnabledSaves == VideoSaveEnabled => video.thumbnailBlob # "null"

SaveClickInvokesOnSave ==
  \A setItemOk \in BOOLEAN :
    VideoHandleSave(setItemOk) => handleSaveCall(VideoSaveCall, setItemOk)

C28_EnabledSaveInvokesOnSave ==
  []SaveEnabledSaves /\ [][SaveClickInvokesOnSave]_vars

(* C23: once a deleteAllData has armed the confirmation it stays armed    *)
(* for the full 5 seconds unless a second deleteAllData deletes the data   *)
(* first: during that time a second click always deletes, no time-out left *)
(* over from an earlier arming disarms it early, and after 5 seconds       *)
(* without a second click the confirmation is disarmed.                    *)
ArmedForFullDelay ==
  confirmTimers.armedFor \in 0..(ConfirmDelay - 1) => showDeleteConfirm

SecondClickDeletes ==
  (deleteAllDataTimed /\ confirmTimers.armedFor \in 0..(ConfirmDelay - 1))
    => /\ last'.alert = "All data has been deleted."
       /\ ls_notes'[username] = Null
       /\ ls_settings'[username] = NoSettingsItem

NotDisarmedEarly ==
  (showDeleteConfirm /\ ~showDeleteConfirm' /\ last' = last)
    => confirmTimers.armedFor >= ConfirmDelay

C23_ConfirmationWindow ==
  /\ []ArmedForFullDelay
  /\ [][SecondClickDeletes /\ NotDisarmedEarly]_vars
  /\ showDeleteConfirm ~> ~showDeleteConfirm

(* C25: saveNoteToFile returns true if and only if the call appended      *)
(* exactly one record for the note (a shadow record or a fallback record)  *)
(* to the user's notes collection; it returns false exactly when the call  *)
(* appended nothing.                                                       *)
AppendedRecordOf(note) ==
  /\ AppendedOne(ls_notes[username], ls_notes'[username])
  /\ LastOf(ls_notes'[username]) \in
       {StringifyObject(metadataOf(note, PathOf(note)[2])),
        StringifyObject(noteDataOf(note))}

C25_TrueIffOneRecordAppended ==
  [][\A note \in AdapterNotes, failAt \in FailPoints,
        metadataOk \in BOOLEAN, fallbackOk \in BOOLEAN :
       (last'.op = "saveNoteToFile"
          /\ saveNoteToFileCall(note, failAt, metadataOk, fallbackOk))
       => /\ last'.ret \in {"true", "false"}
          /\ last'.ret = "true" <=> AppendedRecordOf(note)
          /\ last'.ret = "false" <=> ls_notes' = ls_notes]_vars

\* the export failed, the fallback was refused by the store: false, and the
\* collection that already held a record is as it was
C25_Witness ==
  /\ last.op = "saveNoteToFile"
  /\ last.ret = "false"
  /\ last.logs = {"Error saving note to file", "Error saving to localStorage"}
  /\ ls_notes[username].kind = "array"
  /\ ls_notes[username].items # <<>>

(* C26: across initializeDirectoryStructure, resetDirectoryInitialization, *)
(* getFileStorageManager calls with changing usernames and page reloads,   *)
(* whenever the stored directory-initialized flag of a user is "true" the  *)
(* manager that getFileStorageManager returns for that user holds a        *)
(* directory handle, so that a saveNoteToFile called while                 *)
(* isDirectoryInitialized() is true attempts the export to the directory.  *)
FlagImpliesHandle ==
  \A user \in Users :
    ls_dirInit[user]
      => getFileStorageManager(fileStorageInstance, user).directoryHandle

FlaggedSaveAttemptsExport ==
  \A note \in FlagNotes :
    (/\ last'.op = "saveNoteToFile"
     /\ username # NoUser
     /\ ls_dirInit[username]
     /\ saveNoteToFileCall(note, "none", TRUE, TRUE))
    => "No directory handle available" \notin last'.logs

C26_FlagImpliesHandle ==
  []FlagImpliesHandle /\ [][FlaggedSaveAttemptsExport]_vars

(* C29: in SearchFilterView, choosing the option "Any mood" applies no     *)
(* mood filter: the filtered result is then the one obtained with the mood *)
(* filter cleared (selectedMood empty), for every note list and every      *)
(* setting of the other filters; with all filters cleared the result       *)
(* contains every note of the list exactly once.                           *)
MoodCleared(s) == [s EXCEPT !.selectedMood = ""]

AnyMoodFiltersNothing ==
  SelectMood("any")
    => filteredAndSortedNotes(search')
         = filteredAndSortedNotes(MoodCleared(search'))

Occurrences(list, x) == Cardinality({i \in DOMAIN list : list[i] = x})

ClearedShowsAll ==
  (search.selectedTypes = {} /\ search.selectedTags = {}
     /\ search.selectedMood = "")
    => LET result == filteredAndSortedNotes(search)
       IN /\ Len(result) = Len(search.notes)
          /\ \A i \in DOMAIN search.notes :
               Occurrences(result, search.notes[i])
                 = Occurrences(search.notes, search.notes[i])

C29_AnyMoodIsNoFilter ==
  [][AnyMoodFiltersNothing]_vars /\ []ClearedShowsAll

(* C30: across any sequence of signup and login attempts a stored         *)
(* credential is never overwritten: handleSignup for a username that is in *)
(* the credential table, with a confirmation that does not match or with a *)
(* password shorter than 6 characters leaves the credential table and the  *)
(* session keys as they are; handleLogin sets the session user only when   *)
(* the stored hash of the username equals the hash of the password given,  *)
(* and changes no stored key otherwise.                                    *)
CredentialsKept ==
  \A user \in DOMAIN ls_users :
    user \in DOMAIN ls_users' /\ ls_users'[user] = ls_users[user]

RejectedSignupChangesNothing ==
  \A user \in Users, password \in Passwords, confirmPassword \in Passwords :
    (/\ last'.op = "handleSignup"
     /\ \/ user \in DOMAIN ls_users
        \/ password # confirmPassword
        \/ PasswordLength(password) < 6
     /\ handleSignupSubmit(user, password, confirmPassword))
    => UNCHANGED <<ls_users, ls_user, ls_remember>>

HashMatches(user, password) ==
  user \in DOMAIN ls_users /\ ls_users[user] = hashPassword(password)

LoginOnlyWithMatchingHash ==
  \A user \in Users, password \in Passwords, rememberMe \in BOOLEAN,
     failAt \in {"none", "mydiary_remember"} :
    (last'.op = "handleLogin"
       /\ handleLoginCall(user, password, rememberMe, failAt))
    => IF HashMatches(user, password)
         THEN ls_user' = user
         ELSE UNCHANGED <<storeVars, ls_users, ls_user, ls_remember>>

C30_CredentialNeverOverwritten ==
  [][CredentialsKept /\ RejectedSignupChangesNothing
       /\ LoginOnlyWithMatchingHash]_vars

====
